---- MODULE Spec2Model ----
(***************************************************************************)
(* SnakeOnline: the per-frame simulation step (GameLoop ticker callback),  *)
(* the store (useSnakeGame) and the movement / collision functions.        *)
(*                                                                         *)
(* Numbers.  The code computes in IEEE doubles.  The model computes in     *)
(* fixed point:                                                            *)
(*   - a position coordinate is an integer number of 1/Scale world units,  *)
(*   - a length is an integer number of 1/Scale length units,              *)
(*   - a frame delta is an integer number of 1/Scale seconds (it is        *)
(*     ticker.deltaTime, since delta = ticker.deltaTime / 60),             *)
(*   - a direction is a vector scaled by DirScale (|d| = DirScale is a     *)
(*     unit vector).                                                       *)
(* Comparisons of distances are made on the squares, which is exact.       *)
(* Fields of the records that no decision reads (name, color, radius,      *)
(* size) are left out.                                                     *)
(***************************************************************************)
EXTENDS Integers, Sequences, FiniteSets, TLC

\* ------------------------------------------------------------------------
\* Units and program constants
\* ------------------------------------------------------------------------

\* delta = ticker.deltaTime / 60: one unit of the model is 1/60.
Scale == 60

\* Fixed-point scale of direction vectors.
DirScale == Scale * 100

\* const MAP_SIZE = 500
MAP_SIZE == 500

\* const INITIAL_SNAKE_LENGTH = 10
INITIAL_SNAKE_LENGTH == 10

\* speed: 5 (createSnake)
Speed == 5

\* pellets.slice(0, 50)
PelletScanCap == 50

\* mapSize of the store, in position units.
mapSize == MAP_SIZE * Scale

\* 1.0 world unit: dead zone, link spacing and lethal radius against AI snakes.
One == Scale

\* 0.1 world unit: the compression threshold of the chain.
Tenth == Scale \div 10

\* 1.5 world units: pellet collection radius.
CollectRadius == (3 * Scale) \div 2

\* 0.8 world unit: lethal radius against the own body.
SelfRadius == (8 * Scale) \div 10

\* 30 world units: detection radius of the AI.
DetectRadius == 30 * Scale

\* Minimum length (10) in length units.
MinLength == 10 * Scale

\* ------------------------------------------------------------------------
\* Geometry (useSnakeGame: distance2D, normalize2D)
\* ------------------------------------------------------------------------

Pt(px, py) == [x |-> px, y |-> py]

Zero == Pt(0, 0)

Max(a, b) == IF a >= b THEN a ELSE b

Min(a, b) == IF a <= b THEN a ELSE b

\* Math.abs
Abs(a) == IF a >= 0 THEN a ELSE -a

\* Division rounding toward zero.
Trunc(a, b) == IF a >= 0 THEN a \div b ELSE -((-a) \div b)

RECURSIVE SqrtSearch(_, _, _)
SqrtSearch(n, lo, hi) ==
  IF lo >= hi THEN lo
  ELSE LET mid == (lo + hi + 1) \div 2
       IN IF mid * mid <= n THEN SqrtSearch(n, mid, hi)
                            ELSE SqrtSearch(n, lo, mid - 1)

RoundUp(n, r) == IF r * r = n THEN r ELSE r + 1

\* Math.sqrt, rounded up to the next integer.
Sqrt(n) == RoundUp(n, SqrtSearch(n, 0, 46340))

\* distance2D, squared: dx*dx + dy*dy (the code takes Math.sqrt of it; every
\* use compares it with a constant or with another distance).
distance2DSq(p1, p2) ==
  LET dx == p2.x - p1.x
      dy == p2.y - p1.y
  IN dx * dx + dy * dy

\* if (len === 0) return { x: 0, y: 0 }; return { x: point.x / len, y: point.y / len }
DivideByLen(point, len) ==
  IF len = 0 THEN Zero
  ELSE Pt(Trunc(point.x * DirScale, len), Trunc(point.y * DirScale, len))

\* Variant of normalize2D that divides by |x| + |y| instead of the length.
normalize2D_Manhattan(point) ==
  DivideByLen(point, Abs(point.x) + Abs(point.y))

\* normalize2D: the zero vector for the zero vector, else point / len.
normalize2D(point) ==
  DivideByLen(point, Sqrt(point.x * point.x + point.y * point.y))

\* Variant of Clamp without the clamping.
Clamp_Off(v, size) == v

\* Math.max(-mapSize / 2, Math.min(mapSize / 2, v))
Clamp(v, size) == Max(-(size \div 2), Min(size \div 2, v))

\* ------------------------------------------------------------------------
\* Chain-following movement (SnakeMovement.ts)
\* ------------------------------------------------------------------------

Last(s) == s[Len(s)]

\* Variant of LinkFrom that places the segment two link spacings away.
LinkFrom_Double(last, normalized) ==
  Pt(last.x + Trunc(normalized.x * 2 * One, DirScale),
     last.y + Trunc(normalized.y * 2 * One, DirScale))

\* pos: one link spacing from the last placed segment, in direction normalized.
LinkFrom(last, normalized) ==
  Pt(last.x + Trunc(normalized.x * One, DirScale),
     last.y + Trunc(normalized.y * One, DirScale))

\* Variant of PlaceSegment that keeps a segment farther than one spacing away
\* where it is instead of pulling it in.
PlaceSegment_NoPull(last, seg) ==
  IF distance2DSq(last, seg) > Tenth * Tenth THEN <<seg>> ELSE <<>>

\* Variant of PlaceSegment without the compression threshold: a segment
\* within 0.1 of the last placed one is kept too.
PlaceSegment_KeepAll(last, seg) ==
  IF distance2DSq(last, seg) > One * One
  THEN <<LinkFrom(last, normalize2D(Pt(seg.x - last.x, seg.y - last.y)))>>
  ELSE <<seg>>

\* The segment placed for the old segment seg, given the last placed one:
\* <<pos>> one spacing away when dist > 1, <<seg>> when dist > 0.1, else <<>>.
PlaceSegment(last, seg) ==
  IF distance2DSq(last, seg) > One * One
  THEN <<LinkFrom(last, normalize2D(Pt(seg.x - last.x, seg.y - last.y)))>>
  ELSE IF distance2DSq(last, seg) > Tenth * Tenth
  THEN <<seg>>
  ELSE <<>>

RECURSIVE RebuildLoop(_, _, _, _)

\* Variant of RebuildPush that pushes a placed segment twice.
RebuildPush_Twice(segments, i, newSegments, remainingLength, placed) ==
  IF placed = <<>>
  THEN RebuildLoop(segments, i + 1, newSegments, remainingLength)
  ELSE RebuildLoop(segments, i + 1, newSegments \o placed \o placed,
                   remainingLength - Scale)

\* newSegments.push(...); remainingLength--, when a segment is placed.
RebuildPush(segments, i, newSegments, remainingLength, placed) ==
  IF placed = <<>>
  THEN RebuildLoop(segments, i + 1, newSegments, remainingLength)
  ELSE RebuildLoop(segments, i + 1, newSegments \o placed, remainingLength - Scale)

\* The for loop that rebuilds the body: i is the (1-based) index into the old
\* segments, newSegments the list built so far, remainingLength in length units.
RebuildLoop(segments, i, newSegments, remainingLength) ==
  IF ~(i <= Len(segments) /\ remainingLength > 0) THEN newSegments
  ELSE RebuildPush(segments, i, newSegments, remainingLength,
                   PlaceSegment(Last(newSegments), segments[i]))

\* Variant of MoveHead that clamps the old head and then adds the displacement.
MoveHead_ClampFirst(head, direction, moveDistance, size) ==
  Pt(Clamp(head.x, size) + Trunc(direction.x * moveDistance, DirScale),
     Clamp(head.y, size) + Trunc(direction.y * moveDistance, DirScale))

\* newHead: head + direction * moveDistance, clamped per axis.
MoveHead(head, direction, moveDistance, size) ==
  Pt(Clamp(head.x + Trunc(direction.x * moveDistance, DirScale), size),
     Clamp(head.y + Trunc(direction.y * moveDistance, DirScale), size))

\* Variant of PlayerDirection without the dead zone.
PlayerDirection_NoDeadZone(head, mouse) ==
  normalize2D(Pt(mouse.x - head.x, mouse.y - head.y))

\* The direction the player steers to: dead zone of 1.0 around the head.
PlayerDirection(head, mouse) ==
  LET targetDir == Pt(mouse.x - head.x, mouse.y - head.y)
  IN IF distance2DSq(Zero, targetDir) > One * One
     THEN normalize2D(targetDir)
     ELSE Zero

\* Variant of DrainedLength without the floor Math.max(10, ...).
DrainedLength_NoFloor(snake, delta, isBoosting) ==
  IF isBoosting /\ snake.id = "player" /\ snake.length > MinLength
  THEN snake.length - delta * 2
  ELSE snake.length

\* Variant of DrainedLength that drains a fixed amount per call (the drain of
\* a 0.1 s frame) whatever delta is.
DrainedLength_PerCall(snake, delta, isBoosting) ==
  IF isBoosting /\ snake.id = "player" /\ snake.length > MinLength
  THEN Max(MinLength, snake.length - Tenth * 2)
  ELSE snake.length

\* Variant of DrainedLength that drains whether or not boost is held.
DrainedLength_Unheld(snake, delta, isBoosting) ==
  IF snake.id = "player" /\ snake.length > MinLength
  THEN Max(MinLength, snake.length - delta * 2)
  ELSE snake.length

\* The boost drain: Math.max(10, length - delta * 2) when boosting above 10.
DrainedLength(snake, delta, isBoosting) ==
  IF isBoosting /\ snake.id = "player" /\ snake.length > MinLength
  THEN Max(MinLength, snake.length - delta * 2)
  ELSE snake.length

\* Variant of MoveSnake in which the score follows the length: the drain of
\* boost lowers the score too.
MoveSnake_ScoreDrained(snake, direction, speed, delta, drained, isBoosting, size) ==
  [arg |-> [snake EXCEPT !.direction = direction, !.length = drained],
   ret |-> [snake EXCEPT
              !.direction = direction,
              !.length = drained,
              !.score = @ - (snake.length - drained + Scale - 1) \div Scale,
              !.segments = RebuildLoop(snake.segments, 1,
                             <<MoveHead(snake.segments[1], direction, speed * delta, size)>>,
                             snake.length - Scale),
              !.isBoosting = isBoosting]]

\* The body of updateSnakeMovement and updateAISnake once the direction is
\* known: the head moves, the body is rebuilt from the length before the
\* drain, then the length is drained.  The code assigns snake.direction and
\* snake.length on the object it is given and returns a copy with the new
\* segments: arg is the object passed in as the call leaves it, ret the snake
\* returned.
MoveSnake(snake, direction, speed, delta, drained, isBoosting, size) ==
  [arg |-> [snake EXCEPT !.direction = direction, !.length = drained],
   ret |-> [snake EXCEPT
              !.direction = direction,
              !.length = drained,
              !.segments = RebuildLoop(snake.segments, 1,
                             <<MoveHead(snake.segments[1], direction, speed * delta, size)>>,
                             snake.length - Scale),
              !.isBoosting = isBoosting]]

\* updateSnakeMovement(snake, mouseWorldPosition, delta, isBoosting, pellets, mapSize)
updateSnakeMovement(snake, mouse, delta, isBoosting, size) ==
  IF Len(snake.segments) = 0 THEN [arg |-> snake, ret |-> snake]
  ELSE MoveSnake(snake,
                 IF snake.id = "player"
                 THEN PlayerDirection(snake.segments[1], mouse)
                 ELSE snake.direction,
                 IF isBoosting THEN Speed * 2 ELSE Speed,
                 delta, DrainedLength(snake, delta, isBoosting), isBoosting, size)

\* if (dist < minDist && dist < 30): best is <<>> (targetPos = null, minDist =
\* Infinity) or <<position of the closest pellet so far>>.
Closer(head, best, position) ==
  /\ best = <<>> \/ distance2DSq(head, position) < distance2DSq(head, best[1])
  /\ distance2DSq(head, position) < DetectRadius * DetectRadius

\* Variant of ClosestPellet that scans the whole list (no slice(0, 50)).
RECURSIVE ClosestPellet_WholeList(_, _, _, _)
ClosestPellet_WholeList(head, ps, i, best) ==
  IF i > Len(ps) THEN best
  ELSE IF Closer(head, best, ps[i].position)
  THEN ClosestPellet_WholeList(head, ps, i + 1, <<ps[i].position>>)
  ELSE ClosestPellet_WholeList(head, ps, i + 1, best)

\* The scan for the closest pellet among the first 50 within 30 units.
RECURSIVE ClosestPellet(_, _, _, _)
ClosestPellet(head, ps, i, best) ==
  IF i > Min(Len(ps), PelletScanCap) THEN best
  ELSE IF Closer(head, best, ps[i].position)
  THEN ClosestPellet(head, ps, i + 1, <<ps[i].position>>)
  ELSE ClosestPellet(head, ps, i + 1, best)

\* Variant of SteerTo that heads for the pellet without normalizing: the
\* direction is the vector from the head to the pellet, in world units.
SteerTo_NotNormalized(snake, target, random) ==
  IF target # <<>>
  THEN Pt((target[1].x - snake.segments[1].x) * (DirScale \div Scale),
          (target[1].y - snake.segments[1].y) * (DirScale \div Scale))
  ELSE IF random # <<>> THEN random[1] ELSE snake.direction

\* if (targetPos) direction = normalize2D(targetPos - head); else a random turn
\* with probability 0.02.  random is <<>> when Math.random() < 0.02 is false,
\* else <<d>> with d = (cos angle, sin angle).
SteerTo(snake, target, random) ==
  IF target # <<>>
  THEN normalize2D(Pt(target[1].x - snake.segments[1].x,
                      target[1].y - snake.segments[1].y))
  ELSE IF random # <<>> THEN random[1] ELSE snake.direction

\* The steering of updateAISnake.
AIDirection(snake, ps, random) ==
  SteerTo(snake, ClosestPellet(snake.segments[1], ps, 1, <<>>), random)

\* updateAISnake(snake, delta, pellets, mapSize, playerSnake, allAISnakes)
updateAISnake(snake, delta, ps, size, random) ==
  IF Len(snake.segments) = 0 THEN [arg |-> snake, ret |-> snake]
  ELSE MoveSnake(snake, AIDirection(snake, ps, random), Speed, delta,
                 snake.length, snake.isBoosting, size)

\* ------------------------------------------------------------------------
\* Collisions (CollisionDetection.ts)
\* ------------------------------------------------------------------------

\* Variant of CollectedIds that collects at distance 1.5 too (dist <= 1.5).
RECURSIVE CollectedIds_Inclusive(_, _, _)
CollectedIds_Inclusive(head, ps, i) ==
  IF i > Len(ps) THEN <<>>
  ELSE IF distance2DSq(head, ps[i].position) <= CollectRadius * CollectRadius
       THEN <<ps[i].id>> \o CollectedIds_Inclusive(head, ps, i + 1)
       ELSE CollectedIds_Inclusive(head, ps, i + 1)

\* The ids of the pellets within 1.5 of the head, in the order of the list.
RECURSIVE CollectedIds(_, _, _)
CollectedIds(head, ps, i) ==
  IF i > Len(ps) THEN <<>>
  ELSE IF distance2DSq(head, ps[i].position) < CollectRadius * CollectRadius
       THEN <<ps[i].id>> \o CollectedIds(head, ps, i + 1)
       ELSE CollectedIds(head, ps, i + 1)

\* Variant of Grow in which a pellet is worth 1 of length and nothing of score.
Grow_LengthOnly(snake, collectedPellets) ==
  [snake |-> [snake EXCEPT !.length = @ + Len(collectedPellets) * Scale],
   collectedPellets |-> collectedPellets]

\* snake.length += 1; snake.score += 1, once per collected pellet.
Grow(snake, collectedPellets) ==
  [snake |-> [snake EXCEPT !.length = @ + Len(collectedPellets) * Scale,
                           !.score = @ + Len(collectedPellets)],
   collectedPellets |-> collectedPellets]

\* checkPelletCollisions: the snake with length and score raised by one per
\* collected pellet, and the collected ids.
checkPelletCollisions(snake, ps) ==
  Grow(snake, CollectedIds(snake.segments[1], ps, 1))

\* for (let i = from; i < segments.length; i++) if (dist < radius) return true:
\* i is the 1-based index of the segment looked at, radiusSq the squared radius.
RECURSIVE SegmentLoop(_, _, _, _)
SegmentLoop(head, segments, i, radiusSq) ==
  IF i > Len(segments) THEN FALSE
  ELSE IF distance2DSq(head, segments[i]) < radiusSq THEN TRUE
  ELSE SegmentLoop(head, segments, i + 1, radiusSq)

\* CHECK 1: for (const aiSnake of aiSnakes) for (let i = 3; ...) dist < 1.
RECURSIVE HitsAISnake(_, _, _)
HitsAISnake(head, aiSnakes, a) ==
  IF a > Len(aiSnakes) THEN FALSE
  ELSE IF SegmentLoop(head, aiSnakes[a].segments, 4, One * One) THEN TRUE
  ELSE HitsAISnake(head, aiSnakes, a + 1)

\* Variant of HitsSelf whose loop starts one segment early (let i = 4).
HitsSelf_FromIndex4(playerSnake) ==
  SegmentLoop(playerSnake.segments[1], playerSnake.segments, 5,
              SelfRadius * SelfRadius)

\* CHECK 2: for (let i = 5; ...) dist < 0.8, on the player's own segments.
HitsSelf(playerSnake) ==
  SegmentLoop(playerSnake.segments[1], playerSnake.segments, 6,
              SelfRadius * SelfRadius)

checkSnakeCollisions(playerSnake, aiSnakes) ==
  HitsAISnake(playerSnake.segments[1], aiSnakes, 1) \/ HitsSelf(playerSnake)

\* ------------------------------------------------------------------------
\* Camera (Camera.ts)
\* ------------------------------------------------------------------------

\* Fixed-point scale of the zoom: one unit of zoom is ZoomUnit.
ZoomUnit == 1000000

\* private readonly baseZoom = 8.0
baseZoom == 8 * ZoomUnit

\* private readonly minZoom = 4.0
minZoom == 4 * ZoomUnit

\* private readonly zoomScale = 0.015 (zoom per unit of length)
zoomScale == (15 * ZoomUnit) \div 1000

\* private readonly positionLerpFactor = 0.1, as a divisor.
positionLerpDivisor == 10

\* The threshold 0.1 of the zoom difference.
ZoomEpsilon == ZoomUnit \div 10

\* Variant of TargetZoom without the floor minZoom.
TargetZoom_NoFloor(length) ==
  baseZoom - Trunc((length - MinLength) * zoomScale, Scale)

\* Math.max(minZoom, baseZoom - (length - 10) * zoomScale), length in length units.
TargetZoom(length) ==
  Max(minZoom, baseZoom - Trunc((length - MinLength) * zoomScale, Scale))

\* initialZoomComplete after the test of the zoom difference.
ZoomComplete(camera, targetZoom) ==
  camera.initialZoomComplete \/ Abs(targetZoom - camera.scale) < ZoomEpsilon

\* Variant of zoomLerpFactor that follows the current difference instead of
\* the flag: fast only while the zoom is within 0.1 of its target.
zoomLerpFactor_NoLatch(camera, targetZoom) ==
  IF Abs(targetZoom - camera.scale) < ZoomEpsilon THEN 50 ELSE 1

\* initialZoomComplete ? 0.05 : 0.001, in thousandths.
zoomLerpFactor(camera, targetZoom) ==
  IF ZoomComplete(camera, targetZoom) THEN 50 ELSE 1

\* v += (target - v) * factor / divisor
Lerp(v, target, factor, divisor) == v + Trunc((target - v) * factor, divisor)

\* The camera a PixiGame effect creates: a new Container (pivot 0, position
\* 0, scale 1) and a new Camera (initialZoomComplete = false).
NewCamera ==
  [pivot |-> Zero, position |-> Zero, scale |-> ZoomUnit, initialZoomComplete |-> FALSE]

\* The transform once the target zoom and the smoothing factor are known.
CameraMove(camera, head, screen, targetZoom, factor) ==
  [pivot |-> Pt(Lerp(camera.pivot.x, head.x, 1, positionLerpDivisor),
                Lerp(camera.pivot.y, head.y, 1, positionLerpDivisor)),
   position |-> Pt(screen.x \div 2, screen.y \div 2),
   scale |-> Lerp(camera.scale, targetZoom, factor, 1000),
   initialZoomComplete |-> ZoomComplete(camera, targetZoom)]

\* Camera.update(gameContainer, playerSnake, screenWidth, screenHeight)
CameraUpdate(camera, snake, screen) ==
  IF Len(snake.segments) = 0 THEN camera
  ELSE CameraMove(camera, snake.segments[1], screen, TargetZoom(snake.length),
                  zoomLerpFactor(camera, TargetZoom(snake.length)))

\* Variant of CameraFrame in which the call also moves the head of the snake
\* it was handed onto the focus point.
CameraFrame_CentresHead(camera, snake, screen) ==
  [camera |-> CameraUpdate(camera, snake, screen),
   playerSnake |-> [snake EXCEPT !.segments[1] =
                      CameraUpdate(camera, snake, screen).pivot]]

\* The objects a call of Camera.update can write, after the call: the
\* container with the Camera's flag, and the snake object it was handed
\* (which it only reads).
CameraFrame(camera, snake, screen) ==
  [camera |-> CameraUpdate(camera, snake, screen),
   playerSnake |-> snake]

\* ------------------------------------------------------------------------
\* Bounds of the model and the values drawn for inputs and random numbers
\* ------------------------------------------------------------------------

\* Number of AI snakes created (the code creates 7; the model the first NumAI).
NumAI == 2

\* Number of pellets spawned at the start (the code spawns 500).
NumPellets == 3

\* Ticks executed by one registration of the ticker callback (from
\* gameLoop.start on).
MaxTicks == 2

\* ticker.deltaTime values: 3 frames and 6 frames (delta = 0.05 s and 0.1 s).
DeltaTimes == {3, 6}

\* W(n, h): n + h/100 world units, in position units (h a multiple of 5).
W(n, h) == n * Scale + (h * Scale) \div 100

\* Outcomes of (cos, sin) of Math.random() * Math.PI * 2 when a wandering AI
\* snake turns: the angle pi / 2.
WanderDirs == {Pt(0, DirScale)}

\* Outcomes of 50 + Math.random() * 30 (distance of an AI snake at the start).
StartDistances == {50 * Scale}

\* (cos, sin) of (i / 7) * 2 pi, times 1000, for i = 0..6.
Ring == << <<1000, 0>>, <<623, 782>>, <<-223, 975>>, <<-901, 434>>,
           <<-901, -434>>, <<-223, -975>>, <<623, -782>> >>

\* Outcomes of ((Math.random() - 0.5) * MAP_SIZE, (Math.random() - 0.5) * MAP_SIZE)
\* for the pellets of startGame: pellet i is spawned at StartSpots[i] (cyclically).
\* One pellet ahead of the player, and one ahead of each AI snake.
StartSpots == << Pt(W(2, 0), 0), Pt(W(52, 0), W(1, 0)), Pt(W(32, 0), W(40, 0)),
                 Pt(-W(12, 0), W(52, 0)) >>

\* Outcomes of the same expression for a respawned pellet: at the east wall,
\* and ahead of a player that starts at the origin.
RespawnSpots == << Pt(W(250, 0), W(1, 0)), Pt(W(3, 0), 0) >>

\* Pointer targets in world coordinates: one unit beyond the east wall, and
\* far west of the arena.
MouseTargets == {Pt(W(251, 0), 0), Pt(-W(400, 0), 0)}

\* app.screen.width and app.screen.height, in pixels.
Screen == Pt(800, 600)

\* ------------------------------------------------------------------------
\* The store (useSnakeGame) and the game loop
\* ------------------------------------------------------------------------

VARIABLES
  phase,               \* "menu" | "playing" | "gameover"
  playerSnake,         \* Null or a snake
  aiSnakes,            \* sequence of snakes
  pellets,             \* sequence of [id, position]
  mouseWorldPosition,  \* pointer target in world coordinates
  tickerCallback,      \* GameLoop: the ticker callback is registered
  effects,             \* PixiGame: the runs of the effect whose cleanup or whose
                       \* app.init() is still to come
  restartTimer,        \* -1, or the time elapsed since restartGame set its timer
  nextPelletId,        \* source of the fresh ids of respawned pellets
  ticks,               \* ticks executed by the registered callback
  camera,              \* Null, or the transform of gameContainer and the Camera's flag
  boostRun,            \* history: the current run of boosting ticks
  last                 \* history: the last operation, and for a tick its inputs,
                       \* the store it read and its intermediate results

vars == <<phase, playerSnake, aiSnakes, pellets, mouseWorldPosition,
          tickerCallback, effects, restartTimer, nextPelletId, ticks, camera,
          boostRun, last>>

\* playerSnake: null
Null == [id |-> "null"]

\* setTimeout(() => startGame(), 100): 100 ms, in units of 1/60 s.
TimerDelay == (100 * Scale) \div 1000

AIIds == <<"ai-0", "ai-1", "ai-2", "ai-3", "ai-4", "ai-5", "ai-6">>

\* createSnake: INITIAL_SNAKE_LENGTH segments 1 unit apart, to the left of the head.
createSnake(id, startX, startY) ==
  [id |-> id,
   segments |-> [i \in 1..INITIAL_SNAKE_LENGTH |-> Pt(startX - (i - 1) * One, startY)],
   direction |-> Zero,
   length |-> INITIAL_SNAKE_LENGTH * Scale,
   score |-> INITIAL_SNAKE_LENGTH,
   isDead |-> FALSE,
   isBoosting |-> FALSE]

\* Variant of removePellet that drops the newest pellet of the list, whatever
\* the id.
removePellet_Newest(ps, id) == SubSeq(ps, 1, Len(ps) - 1)

\* removePellet: pellets.filter((p) => p.id !== id)
removePellet(ps, id) == SelectSeq(ps, LAMBDA p : p.id # id)

\* addPellet: [...pellets, pellet]
addPellet(ps, pellet) == Append(ps, pellet)

SpawnSpot(r, k) == RespawnSpots[((r + k) % Len(RespawnSpots)) + 1]

\* collected.forEach((pelletId) => { removePellet(pelletId); addPellet({...}) }):
\* ps is the store's list, ids the collected ids, k the number of pellets
\* respawned so far in this tick, r the random draw.
RECURSIVE Respawn(_, _, _, _, _)
Respawn(ps, ids, firstId, k, r) ==
  IF ids = <<>> THEN ps
  ELSE Respawn(addPellet(removePellet(ps, Head(ids)),
                         [id |-> firstId + k, position |-> SpawnSpot(r, k)]),
               Tail(ids), firstId, k + 1, r)

RECURSIVE Concat(_)
Concat(seqs) == IF seqs = <<>> THEN <<>> ELSE Head(seqs) \o Concat(Tail(seqs))

NoOp(name) == [op |-> name]

\* boostRun when the last tick was not a boosting tick without pellets.
NoRun == [T |-> -1]

\* --- the PixiGame effect (part_002) -----------------------------------------

\* One run of the effect with phase === "playing", after its synchronous
\* part: app = new PIXI.Application() is created and app.init() is awaited;
\* mounted is true, cleanupInput and gameLoop are null.  resolved: app.init()
\* has resolved; listeners: the window listeners are attached; ticker: the
\* callback is registered; destroyed counts the calls of app.destroy.
NewEffect ==
  [mounted |-> TRUE, resolved |-> FALSE, listeners |-> FALSE,
   gameLoop |-> FALSE, ticker |-> FALSE, destroyed |-> 0]

\* initializeGame after await app.init(): destroy and return when the effect
\* was cleaned up meanwhile, else build the scene, attach the input and start
\* the game loop.
ResolveInit(e) ==
  IF ~e.mounted
  THEN [e EXCEPT !.resolved = TRUE, !.destroyed = @ + 1]
  ELSE [e EXCEPT !.resolved = TRUE, !.listeners = TRUE, !.gameLoop = TRUE,
                 !.ticker = TRUE]

\* Variant of CleanupEffect that destroys the application whenever it exists
\* (if (app) instead of if (app && gameLoop)).
CleanupEffect_DestroysApp(e) ==
  [e EXCEPT !.mounted = FALSE, !.listeners = FALSE, !.ticker = FALSE,
            !.destroyed = @ + 1]

\* The cleanup function: mounted = false; cleanupInput() if it is set;
\* gameLoop.stop(app) and app.destroy(...) if (app && gameLoop).
CleanupEffect(e) ==
  [e EXCEPT !.mounted = FALSE,
            !.listeners = FALSE,
            !.ticker = IF e.gameLoop THEN FALSE ELSE @,
            !.destroyed = IF e.gameLoop THEN @ + 1 ELSE @]

\* Nothing is left to run for e: its cleanup has run and its init has resolved.
Finished(e) == ~e.mounted /\ e.resolved

\* --- store actions ---------------------------------------------------------

\* startGame: player at the origin, the AI snakes on a ring, the pellets.
startGame(dist) ==
  /\ phase' = "playing"
  /\ playerSnake' = createSnake("player", 0, 0)
  /\ aiSnakes' = [i \in 1..NumAI |->
                    createSnake(AIIds[i], Trunc(Ring[i][1] * dist, 1000),
                                Trunc(Ring[i][2] * dist, 1000))]
  /\ pellets' = [i \in 1..NumPellets |->
                   [id |-> i - 1,
                    position |-> StartSpots[((i - 1) % Len(StartSpots)) + 1]]]
  /\ nextPelletId' = NumPellets
  /\ boostRun' = NoRun

\* The PLAY NOW button of the menu screen.
StartClick ==
  /\ phase = "menu"
  /\ \E dist \in StartDistances : startGame(dist)
  /\ last' = NoOp("start")
  /\ UNCHANGED <<mouseWorldPosition, tickerCallback, effects, restartTimer, ticks, camera>>

\* Variant of RestartClick that starts the next run at once, without passing
\* through the menu.
RestartClick_Immediate ==
  /\ phase = "gameover"
  /\ restartTimer = -1
  /\ \E dist \in StartDistances : startGame(dist)
  /\ last' = NoOp("restart")
  /\ UNCHANGED <<mouseWorldPosition, tickerCallback, effects, restartTimer, ticks, camera>>

\* Variant of RestartClick that sets the phase and leaves the snakes and the
\* pellets of the finished run in the store.
RestartClick_KeepsWorld ==
  /\ phase = "gameover"
  /\ restartTimer = -1
  /\ phase' = "menu"
  /\ restartTimer' = 0
  /\ boostRun' = NoRun
  /\ last' = NoOp("restart")
  /\ UNCHANGED <<playerSnake, aiSnakes, pellets, mouseWorldPosition,
                 tickerCallback, effects, nextPelletId, ticks, camera>>

\* The PLAY AGAIN button of the game over screen: restartGame.
RestartClick ==
  /\ phase = "gameover"
  /\ restartTimer = -1
  /\ phase' = "menu"
  /\ playerSnake' = Null
  /\ aiSnakes' = <<>>
  /\ pellets' = <<>>
  /\ restartTimer' = 0
  /\ boostRun' = NoRun
  /\ last' = NoOp("restart")
  /\ UNCHANGED <<mouseWorldPosition, tickerCallback, effects, nextPelletId, ticks, camera>>

\* The timer of restartGame fires: startGame().
TimerFire ==
  /\ restartTimer >= 0
  /\ \E dist \in StartDistances : startGame(dist)
  /\ restartTimer' = -1
  /\ last' = [op |-> "timer", phase |-> phase]
  /\ UNCHANGED <<mouseWorldPosition, tickerCallback, effects, ticks, camera>>

\* InputManager.handleMouseMove -> updateMousePosition.
UpdateMousePosition ==
  /\ tickerCallback
  /\ \E m \in MouseTargets :
       /\ m # mouseWorldPosition
       /\ mouseWorldPosition' = m
  /\ last' = NoOp("mouse")
  /\ UNCHANGED <<phase, playerSnake, aiSnakes, pellets, tickerCallback, effects,
                 restartTimer, nextPelletId, ticks, camera, boostRun>>

\* PixiGame effect, phase === "playing": gameLoop.start registers the callback.
EffectInit ==
  /\ phase = "playing"
  /\ ~tickerCallback
  /\ tickerCallback' = TRUE
  /\ effects' = <<ResolveInit(NewEffect)>>
  /\ camera' = NewCamera
  /\ ticks' = 0
  /\ last' = NoOp("init")
  /\ UNCHANGED <<phase, playerSnake, aiSnakes, pellets, mouseWorldPosition,
                 restartTimer, nextPelletId, boostRun>>

\* PixiGame effect cleanup after the phase changed: gameLoop.stop.
EffectCleanup ==
  /\ phase # "playing"
  /\ tickerCallback
  /\ tickerCallback' = FALSE
  /\ effects' = <<>>
  /\ camera' = Null
  /\ ticks' = 0
  /\ last' = NoOp("cleanup")
  /\ UNCHANGED <<phase, playerSnake, aiSnakes, pellets, mouseWorldPosition,
                 restartTimer, nextPelletId, boostRun>>

\* --- the ticker callback (GameLoop.start) ----------------------------------

\* The callback with no player snake in the store: if (!state.playerSnake) return.
TickSkip ==
  /\ tickerCallback
  /\ playerSnake = Null
  /\ last.op # "skip"
  /\ last' = NoOp("skip")
  /\ UNCHANGED <<phase, playerSnake, aiSnakes, pellets, mouseWorldPosition,
                 tickerCallback, effects, restartTimer, nextPelletId, ticks, camera, boostRun>>

\* Step 2: setPlayerBoosting replaces the store's player by a copy when the
\* boost input changed; the callback goes on with the object it read, so
\* stored is the player object the store holds when step 6 is reached.
PlayerResult(isBoosting, moved, got) ==
  [updatedPlayer |-> moved.ret,
   newPlayerSnake |-> got.snake,
   collectedPellets |-> got.collectedPellets,
   stored |-> IF isBoosting # playerSnake.isBoosting
              THEN [playerSnake EXCEPT !.isBoosting = isBoosting]
              ELSE moved.arg]

PlayerCollect(isBoosting, moved) ==
  PlayerResult(isBoosting, moved, checkPelletCollisions(moved.ret, pellets))

\* Steps 3-4: the player moves and collects.
PlayerStep(delta, isBoosting) ==
  PlayerCollect(isBoosting,
                updateSnakeMovement(playerSnake, mouseWorldPosition, delta,
                                    isBoosting, mapSize))

\* Variant of AIStep in which an AI snake whose moved head touches a segment
\* of the player is marked dead.
AIStep_KilledOnContact(aiSnake, delta, random) ==
  LET c == checkPelletCollisions(
             updateAISnake(aiSnake, delta, pellets, mapSize, random).ret, pellets)
  IN [c EXCEPT !.snake.isDead =
        SegmentLoop(c.snake.segments[1], playerSnake.segments, 1, One * One)]

\* Step 8 for one AI snake: it moves and collects, reading the pellets of the
\* state the callback read at its start.
AIStep(aiSnake, delta, random) ==
  checkPelletCollisions(
    updateAISnake(aiSnake, delta, pellets, mapSize, random).ret, pellets)

\* An AI snake draws a random number only when it found no pellet to steer to.
RandomDraws(aiSnake) ==
  IF ClosestPellet(aiSnake.segments[1], pellets, 1, <<>>) # <<>>
  THEN {<<>>}
  ELSE {<<>>} \cup {<<d>> : d \in WanderDirs}

\* Variant of TickStore in which the player is stored before the collision
\* check (step 7 before step 6).
TickStore_StoreBeforeCheck(p, playerHitSnake, ai, aiCollectedPellets, r) ==
  /\ nextPelletId' = nextPelletId + Len(p.collectedPellets) + Len(aiCollectedPellets)
  /\ playerSnake' = p.newPlayerSnake
  /\ IF playerHitSnake
     THEN /\ phase' = "gameover"
          /\ pellets' = Respawn(pellets, p.collectedPellets, nextPelletId, 0, r)
          /\ UNCHANGED <<aiSnakes, camera>>
     ELSE /\ aiSnakes' = [i \in 1..Len(ai) |-> ai[i].snake]
          /\ pellets' = Respawn(Respawn(pellets, p.collectedPellets, nextPelletId, 0, r),
                                aiCollectedPellets, nextPelletId,
                                Len(p.collectedPellets), r)
          /\ camera' = CameraUpdate(camera, p.newPlayerSnake, Screen)
          /\ UNCHANGED phase

\* Variant of TickStore in which the camera follows the moved player on the
\* tick that ends the game as well.
TickStore_CameraOnCrash(p, playerHitSnake, ai, aiCollectedPellets, r) ==
  /\ nextPelletId' = nextPelletId + Len(p.collectedPellets) + Len(aiCollectedPellets)
  /\ camera' = CameraUpdate(camera, p.newPlayerSnake, Screen)
  /\ IF playerHitSnake
     THEN /\ phase' = "gameover"
          /\ playerSnake' = p.stored
          /\ pellets' = Respawn(pellets, p.collectedPellets, nextPelletId, 0, r)
          /\ UNCHANGED aiSnakes
     ELSE /\ playerSnake' = p.newPlayerSnake
          /\ aiSnakes' = [i \in 1..Len(ai) |-> ai[i].snake]
          /\ pellets' = Respawn(Respawn(pellets, p.collectedPellets, nextPelletId, 0, r),
                                aiCollectedPellets, nextPelletId,
                                Len(p.collectedPellets), r)
          /\ UNCHANGED phase

\* Steps 5-10 once the snakes have moved: p is the player's step, ai the steps
\* of the AI snakes (empty when the callback returned at step 6), r the random
\* draw of the respawns.
TickStore(p, playerHitSnake, ai, aiCollectedPellets, r) ==
  /\ nextPelletId' = nextPelletId + Len(p.collectedPellets) + Len(aiCollectedPellets)
  /\ IF playerHitSnake
     THEN \* endGame(); return
          /\ phase' = "gameover"
          /\ playerSnake' = p.stored
          /\ pellets' = Respawn(pellets, p.collectedPellets, nextPelletId, 0, r)
          /\ UNCHANGED <<aiSnakes, camera>>
     ELSE /\ playerSnake' = p.newPlayerSnake
          /\ aiSnakes' = [i \in 1..Len(ai) |-> ai[i].snake]
          /\ pellets' = Respawn(Respawn(pellets, p.collectedPellets, nextPelletId, 0, r),
                                aiCollectedPellets, nextPelletId,
                                Len(p.collectedPellets), r)
          /\ camera' = CameraUpdate(camera, p.newPlayerSnake, Screen)
          /\ UNCHANGED phase

\* The run of boosting ticks after a tick made while playing: L0 is the length
\* the first tick of the run read from the store, T the sum of the deltas.
BoostRunAfter(delta, isBoosting, collectedPellets) ==
  IF ~(phase = "playing" /\ isBoosting /\ collectedPellets = <<>>) THEN NoRun
  ELSE IF boostRun = NoRun THEN [T |-> delta, L0 |-> playerSnake.length]
  ELSE [T |-> boostRun.T + delta, L0 |-> boostRun.L0]

\* One call of the ticker callback with a player snake in the store.
\* randoms[i] is the random draw of AI snake i.  (\E x \in {e} binds x to e.)
Tick(delta, isBoosting, randoms) ==
  /\ tickerCallback
  /\ playerSnake # Null
  /\ ticks < MaxTicks
  /\ restartTimer = -1 \/ restartTimer + delta <= TimerDelay
  /\ ticks' = ticks + 1
  /\ restartTimer' = IF restartTimer = -1 THEN -1 ELSE restartTimer + delta
  /\ \E p \in {PlayerStep(delta, isBoosting)} :
     \E playerHitSnake \in {checkSnakeCollisions(p.newPlayerSnake, aiSnakes)} :
     \E ai \in {IF playerHitSnake THEN <<>>
                ELSE [i \in 1..Len(aiSnakes) |->
                        AIStep(aiSnakes[i], delta, randoms[i])]} :
     \E aiCollectedPellets \in {Concat([i \in 1..Len(ai) |-> ai[i].collectedPellets])} :
       /\ boostRun' = BoostRunAfter(delta, isBoosting, p.collectedPellets)
       /\ last' = [op |-> "tick", delta |-> delta, isBoosting |-> isBoosting,
                   phase |-> phase, playerSnake |-> playerSnake,
                   aiSnakes |-> aiSnakes, pellets |-> pellets,
                   mouse |-> mouseWorldPosition, camera |-> camera,
                   updatedPlayer |-> p.updatedPlayer,
                   collectedPellets |-> p.collectedPellets,
                   playerHitSnake |-> playerHitSnake,
                   aiCollectedPellets |-> aiCollectedPellets]
       /\ \E r \in IF Len(p.collectedPellets) + Len(aiCollectedPellets) = 0
                   THEN {0} ELSE 0..(Len(RespawnSpots) - 1) :
            TickStore(p, playerHitSnake, ai, aiCollectedPellets, r)
  /\ UNCHANGED <<mouseWorldPosition, tickerCallback, effects>>

TickPlayer ==
  /\ playerSnake # Null
  /\ \E delta \in DeltaTimes, isBoosting \in BOOLEAN :
       \E randoms \in {f \in [1..Len(aiSnakes) -> {<<>>} \cup {<<d>> : d \in WanderDirs}] :
                         \A i \in 1..Len(aiSnakes) : f[i] \in RandomDraws(aiSnakes[i])} :
         Tick(delta, isBoosting, randoms)

\* --- initial states ----------------------------------------------------------

\* The store as created: menu, no snakes, no pellets.
InitStore ==
  /\ phase = "menu"
  /\ playerSnake = Null
  /\ aiSnakes = <<>>
  /\ pellets = <<>>
  /\ mouseWorldPosition = Zero
  /\ tickerCallback = FALSE
  /\ effects = <<>>
  /\ restartTimer = -1
  /\ nextPelletId = 0
  /\ ticks = 0
  /\ camera = Null
  /\ boostRun = NoRun
  /\ last = NoOp("none")

\* A snake that has been moving east in a straight line: n segments 1 apart.
StraightSnake(id, headX, headY, n, length) ==
  [id |-> id,
   segments |-> [i \in 1..n |-> Pt(headX - (i - 1) * One, headY)],
   direction |-> Pt(DirScale, 0),
   length |-> length,
   score |-> n,
   isDead |-> FALSE,
   isBoosting |-> FALSE]

\* Heads of the AI snakes in InitLate: the first one lane south of the player,
\* the second at the wall 0.75 north of the player's lane, further ones south.
LateHeads == << Pt(W(249, 50), -W(2, 0)), Pt(W(250, 0), W(0, 75)),
                Pt(W(249, 50), -W(4, 0)), Pt(W(249, 50), -W(6, 0)) >>

\* Pellets in InitLate: one at the wall between the player's lane and the
\* first AI snake, one within the detection range of the southern AI snakes
\* only, the others far from every snake.
LateSpots == << Pt(W(250, 0), -W(1, 45)), Pt(W(249, 50), -W(31, 50)),
                Pt(-W(100, 0), W(100, 0)), Pt(-W(100, 0), -W(100, 0)) >>

\* The camera of InitLate: its initial zoom is complete, the zoom is at the
\* target of length 10.4 (the length 0.1 s of boost ago) and the pivot trails
\* the head by 0.75.
LateCamera ==
  [pivot |-> Pt(W(248, 75), 0), position |-> Pt(Screen.x \div 2, Screen.y \div 2),
   scale |-> TargetZoom(MinLength + (4 * Scale) \div 10),
   initialZoomComplete |-> TRUE]

\* A run in progress: the snakes have travelled east in parallel lanes and
\* have reached the east wall.  The player has eaten one pellet and has
\* boosted for 0.4 s since (length 10.2, 11 segments); the pointer rests on
\* its head.
InitLate ==
  /\ phase = "playing"
  /\ playerSnake = StraightSnake("player", W(249, 50), 0, INITIAL_SNAKE_LENGTH + 1,
                                 MinLength + (2 * Scale) \div 10)
  /\ aiSnakes = [i \in 1..NumAI |->
                   StraightSnake(AIIds[i], LateHeads[i].x, LateHeads[i].y,
                                 INITIAL_SNAKE_LENGTH, INITIAL_SNAKE_LENGTH * Scale)]
  /\ pellets = [i \in 1..NumPellets |->
                  [id |-> i - 1,
                   position |-> LateSpots[((i - 1) % Len(LateSpots)) + 1]]]
  /\ mouseWorldPosition = Pt(W(249, 50), 0)
  /\ tickerCallback = TRUE
  /\ effects = <<ResolveInit(NewEffect)>>
  /\ restartTimer = -1
  /\ nextPelletId = NumPellets
  /\ ticks = 0
  /\ camera = LateCamera
  /\ boostRun = NoRun
  /\ last = NoOp("none")

Init == InitStore \/ InitLate

\* Heads of the AI snakes in InitCrash: the first has passed in front of the
\* player, 1.25 north of the player's lane; further ones are far away.
CrashHeads == << Pt(W(5, 0), W(0, 75)), Pt(-W(100, 0), -W(100, 0)),
                 Pt(-W(100, 0), -W(110, 0)), Pt(-W(100, 0), -W(120, 0)) >>

\* Pellets in InitCrash: one 1.53 from the player's head and 1.45 from the
\* point half a unit north of it, the others far from every snake.
CrashSpots == << Pt(W(0, 55), 0), Pt(W(100, 0), W(100, 0)),
                 Pt(W(100, 0), -W(100, 0)), Pt(W(120, 0), W(100, 0)) >>

\* A run in progress in which the player is about to hit an AI snake: its
\* head is at (2, -0.5), the body of the first AI snake lies along y = 0.75
\* and the pointer is far to the north.
InitCrash ==
  /\ phase = "playing"
  /\ playerSnake = StraightSnake("player", W(2, 0), -W(0, 50), INITIAL_SNAKE_LENGTH,
                                 MinLength)
  /\ aiSnakes = [i \in 1..NumAI |->
                   StraightSnake(AIIds[i], CrashHeads[i].x, CrashHeads[i].y,
                                 INITIAL_SNAKE_LENGTH, INITIAL_SNAKE_LENGTH * Scale)]
  /\ pellets = [i \in 1..NumPellets |->
                  [id |-> i - 1,
                   position |-> CrashSpots[((i - 1) % Len(CrashSpots)) + 1]]]
  /\ mouseWorldPosition = Pt(W(2, 0), W(40, 0))
  /\ tickerCallback = TRUE
  /\ effects = <<ResolveInit(NewEffect)>>
  /\ restartTimer = -1
  /\ nextPelletId = NumPellets
  /\ ticks = 0
  /\ camera = [LateCamera EXCEPT !.pivot = Pt(W(2, 0), -W(0, 50)),
                                 !.scale = TargetZoom(MinLength)]
  /\ boostRun = NoRun
  /\ last = NoOp("none")

Next ==
  \/ StartClick
  \/ RestartClick
  \/ TimerFire
  \/ UpdateMousePosition
  \/ EffectInit
  \/ EffectCleanup
  \/ TickSkip
  \/ TickPlayer

Spec == Init /\ [][Next]_vars

\* The game from the moment before a collision.
SpecCrash == InitCrash /\ [][Next]_vars

\* The same program with the guarantee of the event loop that a timer set by
\* setTimeout runs its callback.
SpecTimer == Init /\ [][Next]_vars /\ WF_vars(TimerFire)

\* ------------------------------------------------------------------------
\* Properties of the game (specification Spec)
\* ------------------------------------------------------------------------

\* The last step was a call of the ticker callback with a player in the store.
IsTick == last.op = "tick"

\* The last step was such a call made while playing.
PlayingTick == IsTick /\ last.phase = "playing"

\* The snakes of the store.
Snakes ==
  (IF playerSnake = Null THEN {} ELSE {playerSnake})
    \cup {aiSnakes[i] : i \in 1..Len(aiSnakes)}

\* C1: for every tick executed while the game is playing, the number of
\* pellets in the store after the tick equals the number before it, whatever
\* snakes collect pellets in that tick.
C1_PelletCountInvariant ==
  PlayingTick => Len(pellets) = Len(last.pellets)

\* C2: after any number of ticks with any boost input, every snake (player
\* and AI) has length >= 10; so has the snake a tick computes for the player.
C2_LengthAtLeastMinimum ==
  /\ \A s \in Snakes : s.length >= MinLength
  /\ IsTick => last.updatedPlayer.length >= MinLength

\* C2 witness: a boosting tick whose drain would take the length below 10
\* has left the player at exactly 10.
C2_Witness ==
  /\ PlayingTick /\ phase = "playing" /\ last.isBoosting
  /\ last.playerSnake.length > MinLength
  /\ last.playerSnake.length - 2 * last.delta < MinLength
  /\ playerSnake.length = MinLength

\* segments.length <= ceil(length), length in length units.
WithinLength(s) == (Len(s.segments) - 1) * Scale < s.length

\* C3: after every tick, every snake stored in the world state has
\* segments.length <= ceil(length), including the ticks in which the player's
\* length is drained by boosting.
C3_SegmentsWithinLength ==
  \A s \in Snakes : WithinLength(s)

InBounds(position) ==
  /\ -(mapSize \div 2) <= position.x /\ position.x <= mapSize \div 2
  /\ -(mapSize \div 2) <= position.y /\ position.y <= mapSize \div 2

\* C4: after any number of ticks, every segment (head and trailing) of every
\* snake has both coordinates within [-mapSize/2, +mapSize/2].
C4_SegmentsInBounds ==
  \A s \in Snakes : \A i \in 1..Len(s.segments) : InBounds(s.segments[i])

\* C4 witness: a tick moved the player's head beyond the east wall and the
\* head has been clamped onto the wall.
C4_Witness ==
  /\ PlayingTick /\ phase = "playing"
  /\ last.playerSnake.segments[1].x
       + Trunc(playerSnake.direction.x
                 * (IF last.isBoosting THEN Speed * 2 ELSE Speed) * last.delta,
               DirScale) > mapSize \div 2
  /\ playerSnake.segments[1].x = mapSize \div 2

\* A step that changes the phase is a start, a lethal tick or a restart.
C5_Step ==
  phase' # phase =>
    \/ phase = "menu" /\ phase' = "playing" /\ last'.op \in {"start", "timer"}
    \/ /\ phase = "playing" /\ phase' = "gameover"
       /\ last'.op = "tick" /\ last'.playerHitSnake
    \/ phase = "gameover" /\ phase' = "menu" /\ last'.op = "restart"

C8_BoostDrain ==
  boostRun # NoRun =>
    /\ phase = "playing" =>
         playerSnake.length = Max(MinLength, boostRun.L0 - 2 * boostRun.T)
    /\ IsTick =>
         last.updatedPlayer.length = Max(MinLength, boostRun.L0 - 2 * boostRun.T)

\* C8 witness: a run of two boosting ticks of different deltas, at the end of
\* which the floor of 10 holds the length.
C8_Witness ==
  /\ boostRun # NoRun /\ phase = "playing" /\ PlayingTick
  /\ boostRun.T > last.delta
  /\ boostRun.T # 2 * last.delta
  /\ boostRun.L0 - 2 * boostRun.T < MinLength
  /\ playerSnake.length = MinLength

\* d is, within the resolution of the fixed point, the unit vector along v
\* (v longer than 1.0).
IsUnitAlong(d, v) ==
  /\ Abs(d.x * v.y - d.y * v.x) <= Abs(v.x) + Abs(v.y)
  /\ d.x * v.x + d.y * v.y > 0
  /\ d.x * d.x + d.y * d.y <= DirScale * DirScale
  /\ d.x * d.x + d.y * d.y
       >= (DirScale - DirScale \div One - 2) * (DirScale - DirScale \div One - 2)

\* The dead zone rule for a head, a pointer target and the snake the tick
\* computed.
DeadZoneRule(head, mouse, updated) ==
  IF distance2DSq(head, mouse) <= One * One
  THEN updated.direction = Zero /\ updated.segments[1] = head
  ELSE IsUnitAlong(updated.direction, Pt(mouse.x - head.x, mouse.y - head.y))

\* C9: whenever the distance from the player's head to the pointer target is
\* <= 1.0 the tick sets the direction to (0, 0) and the head position after
\* the tick equals the one before it, with or without boost; whenever the
\* distance is > 1.0 the direction is the unit vector from the head to the
\* target.
C9_DeadZone ==
  IsTick =>
    /\ DeadZoneRule(last.playerSnake.segments[1], last.mouse, last.updatedPlayer)
    /\ (phase = "playing" /\ last.phase = "playing") =>
         DeadZoneRule(last.playerSnake.segments[1], last.mouse, playerSnake)

\* C9 witness: a boosting tick with the pointer exactly 1.0 from the head.
C9_Witness ==
  /\ PlayingTick /\ phase = "playing" /\ last.isBoosting
  /\ distance2DSq(last.playerSnake.segments[1], last.mouse) = One * One
  /\ playerSnake.direction = Zero

\* The pairs <<snake before, snake after>> of the last tick, for the snakes
\* the tick computed.
TickPairs ==
  IF ~IsTick THEN {}
  ELSE {<<last.playerSnake, last.updatedPlayer>>}
         \cup (IF last.playerHitSnake THEN {}
               ELSE {<<last.aiSnakes[i], aiSnakes[i]>> : i \in 1..Len(aiSnakes)})

C14_ScoreNonDecreasing ==
  IsTick =>
    /\ playerSnake.score >= last.playerSnake.score
    /\ last.updatedPlayer.score >= last.playerSnake.score
    /\ Len(aiSnakes) = Len(last.aiSnakes)
    /\ \A i \in 1..Len(aiSnakes) : aiSnakes[i].score >= last.aiSnakes[i].score

\* C14 witness: a boosting tick has lowered the player's length and left its
\* score, while an AI snake has raised its score.
C14_Witness ==
  /\ PlayingTick /\ phase = "playing" /\ last.isBoosting
  /\ playerSnake.length < last.playerSnake.length
  /\ playerSnake.score = last.playerSnake.score
  /\ \E i \in 1..Len(aiSnakes) : aiSnakes[i].score > last.aiSnakes[i].score

\* The head of AI snake a is within 1.0 of a segment of the player or of
\* another AI snake.
AIHeadContact(a) ==
  \/ SegmentLoop(aiSnakes[a].segments[1], playerSnake.segments, 1, One * One)
  \/ \E b \in 1..Len(aiSnakes) :
       b # a /\ SegmentLoop(aiSnakes[a].segments[1], aiSnakes[b].segments, 1, One * One)

\* C16: AI snakes are never killed or removed: across every tick made while
\* playing their number and ids stay the same, no snake's isDead flag is ever
\* true, and the phase changes only when the check of the player's head
\* (playerHitSnake) says so, whatever the AI heads touch.
C16_AISnakesNeverDie ==
  /\ playerSnake # Null => ~playerSnake.isDead
  /\ \A a \in 1..Len(aiSnakes) : ~aiSnakes[a].isDead
  /\ PlayingTick =>
       /\ Len(aiSnakes) = Len(last.aiSnakes)
       /\ \A a \in 1..Len(aiSnakes) : aiSnakes[a].id = last.aiSnakes[a].id
       /\ (phase # "playing") = last.playerHitSnake
       /\ last.playerHitSnake =
            checkSnakeCollisions(
              checkPelletCollisions(last.updatedPlayer, last.pellets).snake,
              last.aiSnakes)

\* C16 witness: after a tick that moved the AI snakes, an AI head is within
\* 1.0 of a segment of another snake and the game is still being played.
C16_Witness ==
  /\ PlayingTick /\ phase = "playing"
  /\ \E a \in 1..Len(aiSnakes) :
       /\ AIHeadContact(a)
       /\ aiSnakes[a].segments[1] # last.aiSnakes[a].segments[1]

\* Steps 3-4 of the last tick, done again from the state it read: the player
\* moved, then the pellets within reach of the moved head collected.
TickPlayerCollected ==
  checkPelletCollisions(
    updateSnakeMovement(last.playerSnake, last.mouse, last.delta, last.isBoosting,
                        mapSize).ret,
    last.pellets)

\* Step 8 of the last tick for AI snake a, done again from the state it read.
TickAISteps(a) ==
  {checkPelletCollisions(
     updateAISnake(last.aiSnakes[a], last.delta, last.pellets, mapSize, random).ret,
     last.pellets) : random \in {<<>>} \cup {<<d>> : d \in WanderDirs}}

\* The pellets after steps 5 and 9: the player's pellets replaced first, then
\* those of the AI snakes, with ids in that order.
TickRespawned(collectedPellets, aiCollectedPellets) ==
  {Respawn(Respawn(last.pellets, collectedPellets,
                   nextPelletId - Len(collectedPellets) - Len(aiCollectedPellets), 0, r),
           aiCollectedPellets,
           nextPelletId - Len(collectedPellets) - Len(aiCollectedPellets),
           Len(collectedPellets), r) : r \in 0..(Len(RespawnSpots) - 1)}

\* C20: every tick runs its steps in one order: the player moves, collects
\* with its moved head, its pellets are respawned, the lethal check compares
\* the moved player with the AI snakes as the previous tick left them, the
\* player is stored, then the AI snakes steer, move and collect, their
\* pellets are respawned, they are stored, and the camera follows the stored
\* player; a lethal check ends the tick after the player's respawn.
C20_TickOrder ==
  IsTick =>
    /\ last.updatedPlayer.segments = TickPlayerCollected.snake.segments
    /\ last.collectedPellets = TickPlayerCollected.collectedPellets
    /\ last.playerHitSnake =
         checkSnakeCollisions(TickPlayerCollected.snake, last.aiSnakes)
    /\ IF last.playerHitSnake
       THEN /\ playerSnake.segments = last.playerSnake.segments
            /\ pellets \in TickRespawned(last.collectedPellets, <<>>)
            /\ aiSnakes = last.aiSnakes
            /\ camera = last.camera
       ELSE /\ playerSnake = TickPlayerCollected.snake
            /\ \A a \in 1..Len(aiSnakes) :
                 \E step \in TickAISteps(a) : aiSnakes[a] = step.snake
            /\ pellets \in TickRespawned(last.collectedPellets, last.aiCollectedPellets)
            /\ camera = CameraUpdate(last.camera, playerSnake, Screen)

\* C20 witness: a tick made while playing has moved the player next to a
\* body segment an AI snake left behind in the same tick: the check passed
\* against the positions of the tick before, and would not have passed
\* against the new ones.
C20_Witness ==
  /\ PlayingTick /\ ~last.playerHitSnake /\ phase = "playing"
  /\ checkSnakeCollisions(playerSnake, aiSnakes)

\* The world startGame creates: the player at the origin with length 10,
\* score 10 and 10 segments, the AI snakes with length 10, and the batch of
\* pellets with the ids of a batch.
FreshWorld ==
  /\ phase = "playing"
  /\ playerSnake # Null
  /\ playerSnake.segments[1] = Zero
  /\ playerSnake.length = 10 * Scale /\ playerSnake.score = 10
  /\ Len(playerSnake.segments) = 10
  /\ Len(aiSnakes) = NumAI
  /\ \A a \in 1..Len(aiSnakes) :
       /\ aiSnakes[a].length = 10 * Scale /\ aiSnakes[a].score = 10
       /\ Len(aiSnakes[a].segments) = 10
  /\ Len(pellets) = NumPellets
  /\ \A i \in 1..Len(pellets) : pellets[i].id = i - 1

\* C21: after a restart issued in gameover the phase is menu with no player,
\* no AI snakes and no pellets, and the phase then eventually becomes playing
\* with a freshly created world: the player at the origin with length 10,
\* score 10 and 10 segments, every AI snake with length 10, the full batch of
\* pellets, and nothing of the previous run.
C21_RestartRecreates ==
  /\ [](last.op = "restart" =>
          /\ phase = "menu" /\ playerSnake = Null
          /\ aiSnakes = <<>> /\ pellets = <<>>)
  /\ (last.op = "restart") ~> FreshWorld

\* C21 witness: the timer of a restart has fired in the menu and the world is
\* the fresh one.
C21_Witness ==
  /\ last.op = "timer" /\ last.phase = "menu"
  /\ FreshWorld

\* C23: a tick lowers the length of a snake only if the snake is the player
\* and boost is held in that tick: no AI snake is ever boosting, no tick
\* lowers the length of an AI snake, and a tick without boost does not lower
\* the length of the player.
C23_OnlyBoostShortens ==
  /\ \A a \in 1..Len(aiSnakes) : ~aiSnakes[a].isBoosting
  /\ IsTick =>
       /\ \A a \in 1..Len(aiSnakes) : aiSnakes[a].length >= last.aiSnakes[a].length
       /\ ~last.isBoosting =>
            /\ playerSnake.length >= last.playerSnake.length
            /\ last.updatedPlayer.length >= last.playerSnake.length

\* C23 witness: a tick with boost held has lowered the length of the player
\* and of no AI snake, after a tick without boost.
C23_Witness ==
  /\ PlayingTick /\ last.isBoosting /\ ~last.playerSnake.isBoosting
  /\ playerSnake.length < last.playerSnake.length
  /\ aiSnakes # <<>>
  /\ \A a \in 1..Len(aiSnakes) : aiSnakes[a].length >= last.aiSnakes[a].length

\* Tolerance on the length of a direction: normalizing a vector of positions
\* that are multiples of 1/60 leaves an error of a few percent for the
\* shortest vectors the game normalizes (half a world unit).
UnitTolerance == DirScale \div 20

\* d is the zero vector or has length 1 within the tolerance.
ZeroOrUnit(d) ==
  \/ d = Zero
  \/ /\ d.x * d.x + d.y * d.y <= DirScale * DirScale
     /\ d.x * d.x + d.y * d.y
          >= (DirScale - UnitTolerance) * (DirScale - UnitTolerance)

\* C24: in every reachable state the direction of every snake is the zero
\* vector or a vector of length 1 within the tolerance.
C24_DirectionZeroOrUnit ==
  /\ playerSnake # Null => ZeroOrUnit(playerSnake.direction)
  /\ \A a \in 1..Len(aiSnakes) : ZeroOrUnit(aiSnakes[a].direction)
  /\ IsTick => ZeroOrUnit(last.updatedPlayer.direction)

\* C24 witness: after a tick one snake has the direction zero, one a unit
\* direction along an axis and one a unit direction that is along no axis.
C24_Witness ==
  /\ IsTick
  /\ \E s \in {playerSnake} \cup {aiSnakes[a] : a \in 1..Len(aiSnakes)} :
       s.direction = Zero
  /\ \E s \in {playerSnake} \cup {aiSnakes[a] : a \in 1..Len(aiSnakes)} :
       s.direction \in {Pt(DirScale, 0), Pt(-DirScale, 0), Pt(0, DirScale), Pt(0, -DirScale)}
  /\ \E s \in {playerSnake} \cup {aiSnakes[a] : a \in 1..Len(aiSnakes)} :
       s.direction.x # 0 /\ s.direction.y # 0

\* The ids collected in the last tick, by the player or by an AI snake.
TickCollectedIds ==
  {last.collectedPellets[i] : i \in 1..Len(last.collectedPellets)}
    \cup {last.aiCollectedPellets[i] : i \in 1..Len(last.aiCollectedPellets)}

\* The heads that collected in the last tick: the moved head of the player
\* and, unless the tick ended at the lethal check, those of the AI snakes.
TickHeads ==
  {last.updatedPlayer.segments[1]}
    \cup (IF last.playerHitSnake THEN {}
          ELSE {aiSnakes[a].segments[1] : a \in 1..Len(aiSnakes)})

\* Pellet q of the state the tick read is in the store after the tick, with
\* its id and its position.
StillThere(q) == \E j \in 1..Len(pellets) : pellets[j] = q

\* C26: across a tick every pellet whose id no snake collected in that tick
\* is still in the population with the same id and position, and a pellet
\* has left it only if its id was collected, the head of some snake being
\* within 1.5 of it.
C26_PelletsLeaveByConsumption ==
  IsTick =>
    \A i \in 1..Len(last.pellets) :
      /\ last.pellets[i].id \notin TickCollectedIds => StillThere(last.pellets[i])
      /\ ~StillThere(last.pellets[i]) =>
           /\ last.pellets[i].id \in TickCollectedIds
           /\ \E head \in TickHeads :
                distance2DSq(head, last.pellets[i].position) < ((15 * Scale) \div 10) * ((15 * Scale) \div 10)

\* C26 witness: a tick has removed a pellet a head was within 1.5 of, and has
\* left another pellet in place.
C26_Witness ==
  /\ PlayingTick
  /\ \E i \in 1..Len(last.pellets) : ~StillThere(last.pellets[i])
  /\ \E i \in 1..Len(last.pellets) : StillThere(last.pellets[i])
  /\ Len(pellets) >= Len(last.pellets)

\* C28: the ticker callback advances the world only while the phase is
\* playing: a call made while the phase is menu or gameover leaves the player
\* snake, the AI snakes and the pellets unchanged and does not call endGame.
C28_TicksOnlyWhilePlaying ==
  (IsTick /\ last.phase # "playing") =>
    /\ playerSnake = last.playerSnake
    /\ aiSnakes = last.aiSnakes
    /\ pellets = last.pellets
    /\ ~last.playerHitSnake

\* C29: every pellet the player consumes adds exactly 1 to the stored score
\* and to the stored length, the tick of the lethal collision included: after
\* a tick made while playing the stored score is the score before the tick
\* plus the number of pellets removed because of the player, and the stored
\* length is the moved snake's length plus as many units.
C29_ConsumedPelletsCounted ==
  PlayingTick =>
    /\ playerSnake.score = last.playerSnake.score + Len(last.collectedPellets)
    /\ playerSnake.length =
         last.updatedPlayer.length + Len(last.collectedPellets) * Scale

\* C30: a tick whose lethal-collision check returns true ends there: the
\* phase is gameover, the stored AI snakes are those of before the tick, the
\* stored player has the segments and the score it had before the tick, and
\* the camera is as before the tick.
C30_LethalTickStops ==
  (IsTick /\ last.playerHitSnake) =>
    /\ phase = "gameover"
    /\ aiSnakes = last.aiSnakes
    /\ playerSnake.segments = last.playerSnake.segments
    /\ playerSnake.score = last.playerSnake.score
    /\ camera = last.camera

\* C30 witness: a tick made while playing ended the game after the player
\* had moved and collected a pellet, and with the camera away from where an
\* update would have put it.
C30_Witness ==
  /\ PlayingTick /\ last.playerHitSnake
  /\ last.collectedPellets # <<>>
  /\ last.updatedPlayer.segments # playerSnake.segments
  /\ camera # CameraUpdate(last.camera, TickPlayerCollected.snake, Screen)

\* The ids of a list of pellets.
IdsOf(ps) == {ps[i].id : i \in 1..Len(ps)}

\* The pellet ids by which snakes grew in the last tick, one entry for each
\* growth: the player's, then those of the AI snakes.
TickGrowths == last.collectedPellets \o last.aiCollectedPellets

\* C31: each pellet is consumed by at most one snake: in one tick no pellet
\* id makes two snakes grow (the player and an AI snake, or two AI snakes),
\* and the tick adds as many new pellets as it removed distinct pellets.
C31_PelletConsumedOnce ==
  IsTick =>
    /\ \A i, j \in 1..Len(TickGrowths) : i # j => TickGrowths[i] # TickGrowths[j]
    /\ Cardinality(IdsOf(pellets) \ IdsOf(last.pellets)) =
         Cardinality(IdsOf(last.pellets) \ IdsOf(pellets))

\* C32: the world is created only on the transition from menu to playing:
\* under every interleaving of the restart command, its start timer and a
\* start command given on the menu screen in between, startGame never runs
\* while the phase is playing, so the snakes, the scores and the pellets of a
\* run in progress are never replaced.
C32_StartOnlyFromMenu ==
  last.op = "timer" => last.phase = "menu"

\* ------------------------------------------------------------------------
\* The collision functions on their own (specification SpecCollisions)
\* ------------------------------------------------------------------------

\* A player that has made a U-turn and travels west under its own body: head
\* at (hx, 0), m segments ahead of the turn on the line y = 0, the others on
\* the line y = g, the one of (0-based) index 2m + 1 above the point (0, 0).
Hairpin(m, g, hx) ==
  [id |-> "player",
   segments |-> [i \in 1..INITIAL_SNAKE_LENGTH |->
                   IF i = 1 THEN Pt(hx, 0)
                   ELSE IF i - 1 <= m THEN Pt((i - 1) * One, 0)
                   ELSE Pt((2 * m + 2 - i) * One, g)],
   direction |-> Pt(-DirScale, 0),
   length |-> INITIAL_SNAKE_LENGTH * Scale,
   score |-> INITIAL_SNAKE_LENGTH,
   isDead |-> FALSE,
   isBoosting |-> FALSE]

\* Number of segments of a hairpin ahead of its turn.
Turns == {1, 2, 3}

\* Width of the hairpin: 0.75 and 0.8.
Gaps == {SelfRadius - 3, SelfRadius}

\* x of the player's head: 0 and 0.75.
Shifts == {0, SelfRadius - 3}

\* Index (0-based) of the AI segment at x = 0.
Aheads == {2, 3, 4}

\* Distance of the lane of the near AI snake south of the line y = 0:
\* 0.75, just below 1.0, 1.0 and 5.
Offsets == {SelfRadius - 3, One - 1, One, 5 * One}

\* AI snakes in lanes south of the player: the one of index near with its
\* segment of (0-based) index ahead at x = 0, at distance offset of the line
\* y = 0; the others far away.
Lanes(near, ahead, offset) ==
  [a \in 1..NumAI |->
     IF a = near
     THEN StraightSnake(AIIds[a], ahead * One, -offset,
                        INITIAL_SNAKE_LENGTH, INITIAL_SNAKE_LENGTH * Scale)
     ELSE StraightSnake(AIIds[a], 0, -(5 + 2 * a) * One,
                        INITIAL_SNAKE_LENGTH, INITIAL_SNAKE_LENGTH * Scale)]

\* Pellet positions around the head (0, 0) of the player and the head
\* (3, -5) of the first AI snake: at distance 1.5 (twice), just below 1.5
\* (twice), at 1.0 and 2.0, and 1.48 from the AI head.
PelletSpots ==
  << Pt(CollectRadius, 0), Pt(CollectRadius - 1, 0), Pt(72, 54), Pt(71, 54),
     Pt(0, -One), Pt(2 * One, 0), Pt(3 * One, -5 * One + CollectRadius - 1) >>

\* Some inputs of checkSnakeCollisions and of checkPelletCollisions.
InitCollisions ==
  /\ phase = "playing"
  /\ mouseWorldPosition = Zero
  /\ tickerCallback = FALSE
  /\ effects = <<>>
  /\ restartTimer = -1
  /\ nextPelletId = NumPellets
  /\ ticks = 0
  /\ camera = Null
  /\ boostRun = NoRun
  /\ last = NoOp("none")
  /\ \/ /\ playerSnake \in {Hairpin(m, g, hx) : m \in Turns, g \in Gaps, hx \in Shifts}
        /\ aiSnakes \in {Lanes(near, ahead, offset) :
                           near \in 1..NumAI, ahead \in Aheads, offset \in Offsets}
        /\ pellets = [i \in 1..NumPellets |->
                        [id |-> i - 1,
                         position |-> PelletSpots[((i - 1) % Len(PelletSpots)) + 1]]]
     \/ /\ playerSnake = Hairpin(2, SelfRadius, 0)
        /\ aiSnakes = Lanes(1, 3, 5 * One)
        /\ pellets \in {[i \in 1..NumPellets |-> [id |-> i - 1, position |-> spots[i]]] :
                          spots \in [1..NumPellets ->
                                       {PelletSpots[j] : j \in 1..Len(PelletSpots)}]}

\* A call of checkSnakeCollisions on the snakes of the state.
CallCheckSnakeCollisions ==
  /\ last.op = "none"
  /\ last' = [op |-> "checkSnakeCollisions",
              result |-> checkSnakeCollisions(playerSnake, aiSnakes)]
  /\ UNCHANGED <<phase, playerSnake, aiSnakes, pellets, mouseWorldPosition,
                 tickerCallback, effects, restartTimer, nextPelletId, ticks, camera, boostRun>>

\* A call of checkPelletCollisions on one of the snakes of the state.
CallCheckPelletCollisions ==
  /\ last.op = "none"
  /\ \E s \in Snakes :
       last' = [op |-> "checkPelletCollisions", snake |-> s,
                result |-> checkPelletCollisions(s, pellets)]
  /\ UNCHANGED <<phase, playerSnake, aiSnakes, pellets, mouseWorldPosition,
                 tickerCallback, effects, restartTimer, nextPelletId, ticks, camera, boostRun>>

NextCollisions == CallCheckSnakeCollisions \/ CallCheckPelletCollisions

SpecCollisions == InitCollisions /\ [][NextCollisions]_vars

\* The (0-based) indices from, from + 1, ... of the segments of a snake that
\* are closer than radius to the point head.
Contacts(head, snake, from, radius) ==
  {k \in from..(Len(snake.segments) - 1) :
     distance2DSq(head, snake.segments[k + 1]) < radius * radius}

\* C6: checkSnakeCollisions(player, aiSnakes) returns true exactly when some
\* AI snake has a segment at index >= 3 whose distance to the player's head is
\* < 1.0, or the player has an own segment at index >= 5 whose distance to the
\* head is < 0.8; closer segments of lower index never make it true.
C6_LethalExactly ==
  last.op = "checkSnakeCollisions" =>
    (last.result <=>
       \/ \E a \in 1..Len(aiSnakes) :
            Contacts(playerSnake.segments[1], aiSnakes[a], 3, One) # {}
       \/ Contacts(playerSnake.segments[1], playerSnake, 5, SelfRadius) # {})

\* C6 witness: the call returned false with an AI segment of index 1 within
\* 1.0 of the head and the own segment of index 4 within 0.8 of it.
C6_Witness ==
  /\ last.op = "checkSnakeCollisions" /\ ~last.result
  /\ \E a \in 1..Len(aiSnakes) :
       1 \in Contacts(playerSnake.segments[1], aiSnakes[a], 0, One)
  /\ 4 \in Contacts(playerSnake.segments[1], playerSnake, 0, SelfRadius)

\* The indices of the pellets closer than 1.5 to the head of snake s.
InReach(s) ==
  {i \in 1..Len(pellets) :
     distance2DSq(s.segments[1], pellets[i].position) < CollectRadius * CollectRadius}

\* C7: checkPelletCollisions(snake, pellets) returns exactly the ids of the
\* pellets whose distance to the snake's head is strictly below 1.5, and
\* raises both snake.length and snake.score by the number of such pellets.
C7_CollectsExactly ==
  last.op = "checkPelletCollisions" =>
    /\ {last.result.collectedPellets[j] : j \in 1..Len(last.result.collectedPellets)}
         = {pellets[i].id : i \in InReach(last.snake)}
    /\ Len(last.result.collectedPellets) = Cardinality(InReach(last.snake))
    /\ last.result.snake =
         [last.snake EXCEPT
            !.length = @ + Cardinality(InReach(last.snake)) * Scale,
            !.score = @ + Cardinality(InReach(last.snake))]

\* C7 witness: a call collected two pellets and left one at distance 1.5.
C7_Witness ==
  /\ last.op = "checkPelletCollisions"
  /\ Len(last.result.collectedPellets) = 2
  /\ last.result.snake.length = last.snake.length + 2 * Scale
  /\ \E i \in 1..Len(pellets) :
       distance2DSq(last.snake.segments[1], pellets[i].position)
         = CollectRadius * CollectRadius

\* ------------------------------------------------------------------------
\* Steady movement at the nominal frame rate (specification SpecGrowth)
\* ------------------------------------------------------------------------

\* ticker.deltaTime of a frame at 60 frames per second (delta = 1/60 s).
NominalDelta == 1

\* Target lengths of the snakes of InitGrowth: 11 and 12 (one and two pellets
\* eaten by a snake of 10 segments).
GrowthLengths == {INITIAL_SNAKE_LENGTH * Scale + Scale, INITIAL_SNAKE_LENGTH * Scale + 2 * Scale}

\* West end of the strip along the east wall in which the snakes go back and
\* forth: x = 248.
GrowthWest == W(248, 0)

\* Pointer targets of the player: beyond the east wall, and 1.0 west of the strip.
GrowthTargets == {Pt(W(251, 0), 0), Pt(GrowthWest - One, 0)}

\* Outcomes of (cos, sin) of the random angle of a wandering AI snake: the
\* angles 0 and pi.
GrowthDirs == {Pt(DirScale, 0), Pt(-DirScale, 0)}

\* A snake of 10 segments that has just eaten, heading east, no pellet left in
\* range: the player, or an AI snake (the movement of one snake reads no
\* other snake).
InitGrowth ==
  /\ phase = "playing"
  /\ \E length \in GrowthLengths :
       \/ /\ playerSnake = StraightSnake("player", W(249, 0), 0,
                                         INITIAL_SNAKE_LENGTH, length)
          /\ aiSnakes = <<>>
       \/ /\ playerSnake = Null
          /\ aiSnakes = << StraightSnake(AIIds[1], W(249, 0), -W(5, 0),
                                         INITIAL_SNAKE_LENGTH, length) >>
  /\ pellets = <<>>
  /\ mouseWorldPosition = Pt(W(251, 0), 0)
  /\ tickerCallback = TRUE
  /\ effects = <<ResolveInit(NewEffect)>>
  /\ restartTimer = -1
  /\ nextPelletId = 0
  /\ ticks = 0
  /\ camera = Null
  /\ boostRun = NoRun
  /\ last = NoOp("none")

\* The head has moved and is in the strip.
KeepsMoving(before, after) ==
  /\ after.segments[1] # before.segments[1]
  /\ after.segments[1].x >= GrowthWest

\* A frame of the player at 60 frames per second without boost: the pointer is
\* where it keeps the snake moving.
GrowthPlayerFrame ==
  /\ playerSnake # Null
  /\ \E mouse \in GrowthTargets :
       \E moved \in {updateSnakeMovement(playerSnake, mouse, NominalDelta, FALSE, mapSize)} :
         /\ KeepsMoving(playerSnake, moved.ret)
         /\ mouseWorldPosition' = mouse
         /\ playerSnake' = moved.ret
         /\ last' = [op |-> "growthPlayer", snake |-> playerSnake]
  /\ UNCHANGED <<phase, aiSnakes, pellets, tickerCallback, effects, restartTimer,
                 nextPelletId, ticks, camera, boostRun>>

\* A frame of the AI snake at 60 frames per second: the random turns are those
\* that keep it moving in the strip.
GrowthAIFrame ==
  /\ aiSnakes # <<>>
  /\ \E random \in {<<>>} \cup {<<d>> : d \in GrowthDirs} :
       \E moved \in {updateAISnake(aiSnakes[1], NominalDelta, pellets, mapSize, random)} :
         /\ KeepsMoving(aiSnakes[1], moved.ret)
         /\ aiSnakes' = <<moved.ret>>
         /\ last' = [op |-> "growthAI", snake |-> aiSnakes[1]]
  /\ UNCHANGED <<phase, playerSnake, pellets, mouseWorldPosition, tickerCallback, effects,
                 restartTimer, nextPelletId, ticks, camera, boostRun>>

NextGrowth == GrowthPlayerFrame \/ GrowthAIFrame

\* The steps of GrowthPlayerFrame and of GrowthAIFrame are the steps that
\* record a frame of that snake in last.
PlayerFrameRecorded ==
  playerSnake # Null /\ last' = [op |-> "growthPlayer", snake |-> playerSnake]

AIFrameRecorded ==
  aiSnakes # <<>> /\ last' = [op |-> "growthAI", snake |-> aiSnakes[1]]

\* The ticker calls the callback frame after frame, and each frame moves the
\* player and every AI snake: frames of a snake keep being made.
SpecGrowth ==
  InitGrowth /\ [][NextGrowth]_vars
    /\ WF_last(PlayerFrameRecorded) /\ WF_last(AIFrameRecorded)

\* The snake has fewer segments than its target length.
Short(s) == Len(s.segments) * Scale < s.length

\* C11: for a snake that keeps moving at base speed 5 with dt = 1/60 (not
\* boosting) and whose target length exceeds its segment count, later ticks
\* raise the segment count until it reaches the target length; the same
\* holds for AI snakes.
C11_CountReachesLength ==
  /\ (playerSnake # Null /\ Short(playerSnake))
       ~> (playerSnake # Null /\ ~Short(playerSnake))
  /\ (aiSnakes # <<>> /\ Short(aiSnakes[1]))
       ~> (aiSnakes # <<>> /\ ~Short(aiSnakes[1]))

\* ------------------------------------------------------------------------
\* The movement functions on their own (specification SpecMovement)
\* ------------------------------------------------------------------------

\* ticker.deltaTime of the calls: a frame of no duration, a frame at 60 frames
\* per second, 3 frames and 6 frames.
MovementDeltas == {0, 1, 3, 6}

\* A snake whose body bends: segments 1.0, 0.5, 0.25, 1.0, ... apart, as left
\* by turns and by frames of different lengths.
BentSegments ==
  << Pt(0, 0), Pt(-60, 0), Pt(-90, 0), Pt(-90, 15), Pt(-90, 75), Pt(-42, 111),
     Pt(18, 111), Pt(18, 141), Pt(78, 141), Pt(126, 105), Pt(126, 45) >>

\* The player snakes the calls are made on: a new snake, a snake of 11
\* segments whose length boost has drained to 10.2, a bent snake of 11
\* segments and length 11, the bent snake once boost has drained its
\* length to 10, a snake whose head is 0.5 from the east wall, and a snake of
\* 10 segments that collected two pellets in the tick before.
MovementSnakes ==
  { createSnake("player", 0, 0),
    [StraightSnake("player", 0, 0, INITIAL_SNAKE_LENGTH, MinLength + 2 * Scale)
       EXCEPT !.score = INITIAL_SNAKE_LENGTH + 2],
    StraightSnake("player", W(249, 50), 0, INITIAL_SNAKE_LENGTH, MinLength),
    StraightSnake("player", 0, 0, INITIAL_SNAKE_LENGTH + 1, MinLength + (2 * Scale) \div 10),
    [StraightSnake("player", 0, 0, INITIAL_SNAKE_LENGTH + 1, MinLength + Scale)
       EXCEPT !.segments = BentSegments],
    [StraightSnake("player", 0, 0, INITIAL_SNAKE_LENGTH + 1, MinLength)
       EXCEPT !.segments = BentSegments] }

\* Pointer targets of the calls: on the head, 0.5 east of it, 10 east, far
\* east, beyond the east wall, and far to the north-west.
MovementTargets ==
  {Zero, Pt(W(0, 50), 0), Pt(W(10, 0), 0), Pt(W(100, 0), 0), Pt(W(251, 0), 0),
   Pt(-W(30, 0), W(40, 0))}

\* A position out of the detection range of the AI snake of InitMovement.
FarSpot == Pt(W(200, 0), W(200, 0))

\* A pellet list of n pellets: the pellet of index e[1] at e[2] for the
\* entries e of spots, the others far away.
Layout(n, spots) ==
  [i \in 1..n |->
     [id |-> i - 1,
      position |-> IF \E e \in spots : e[1] = i
                   THEN (CHOOSE e \in spots : e[1] = i)[2]
                   ELSE FarSpot]]

\* Pellet lists around an AI head at the origin: a pellet in range among the
\* first 50 and a closer one behind them; one in range behind the first 50
\* only; two at the same distance; one at distance 30 exactly; one in range at
\* index 50 (the last scanned); a list of 3 whose closest pellet is the last.
PelletLayouts ==
  { Layout(PelletScanCap + 2, {<<3, Pt(0, W(20, 0))>>, <<PelletScanCap + 1, Pt(W(5, 0), 0)>>}),
    Layout(PelletScanCap + 2, {<<PelletScanCap + 1, Pt(W(5, 0), 0)>>}),
    Layout(PelletScanCap + 2, {<<1, Pt(W(20, 0), 0)>>, <<2, Pt(0, -W(10, 0))>>,
                               <<7, Pt(-W(10, 0), 0)>>}),
    Layout(PelletScanCap + 2, {<<1, Pt(DetectRadius, 0)>>}),
    Layout(PelletScanCap + 2, {<<PelletScanCap, Pt(W(18, 0), -W(23, 95))>>}),
    Layout(3, {<<1, Pt(W(12, 0), W(5, 0))>>, <<3, Pt(-W(3, 0), W(4, 0))>>}) }

\* Outcomes of (cos, sin) of the random angle: the angles pi / 2 and pi.
MovementDirs == {Pt(0, DirScale), Pt(-DirScale, 0)}

\* The AI snakes the calls are made on: a new snake (direction zero) and a
\* snake heading east.
MovementAISnakes ==
  { createSnake(AIIds[1], 0, 0),
    StraightSnake(AIIds[1], 0, 0, INITIAL_SNAKE_LENGTH, MinLength) }

\* Inputs of updateSnakeMovement (a player and a pointer target), or of
\* updateAISnake (an AI snake and a pellet list).
InitMovement ==
  /\ phase = "playing"
  /\ tickerCallback = FALSE
  /\ effects = <<>>
  /\ restartTimer = -1
  /\ nextPelletId = 0
  /\ ticks = 0
  /\ camera = Null
  /\ boostRun = NoRun
  /\ last = NoOp("none")
  /\ \/ /\ playerSnake \in MovementSnakes
        /\ mouseWorldPosition \in MovementTargets
        /\ aiSnakes = <<>>
        /\ pellets = <<>>
     \/ /\ playerSnake = Null
        /\ mouseWorldPosition = Zero
        /\ aiSnakes \in {<<s>> : s \in MovementAISnakes}
        /\ pellets \in PelletLayouts

\* A call of updateSnakeMovement, up to the start of the loop that rebuilds
\* the body: the direction, the new head, newSegments and remainingLength.
CallUpdateSnakeMovement ==
  /\ last.op = "none"
  /\ playerSnake # Null
  /\ \E delta \in MovementDeltas, isBoosting \in BOOLEAN :
       last' = [op |-> "rebuild",
                delta |-> delta, isBoosting |-> isBoosting,
                i |-> 1,
                newSegments |->
                  <<MoveHead(playerSnake.segments[1],
                             PlayerDirection(playerSnake.segments[1], mouseWorldPosition),
                             (IF isBoosting THEN Speed * 2 ELSE Speed) * delta, mapSize)>>,
                remainingLength |-> playerSnake.length - Scale,
                iterations |-> <<>>]
  /\ UNCHANGED <<phase, playerSnake, aiSnakes, pellets, mouseWorldPosition,
                 tickerCallback, effects, restartTimer, nextPelletId, ticks, camera, boostRun>>

\* i < snake.segments.length && remainingLength > 0, i being 1-based here.
LoopCondition == last.i <= Len(playerSnake.segments) /\ last.remainingLength > 0

\* One iteration of the loop: iterations records, for each iteration, the
\* old segment, the last placed segment and the segments placed for it.
RebuildIteration ==
  /\ last.op = "rebuild"
  /\ LoopCondition
  /\ \E seg \in {playerSnake.segments[last.i]}, from \in {Last(last.newSegments)} :
     \E placed \in {PlaceSegment(from, seg)} :
       last' = [last EXCEPT
                  !.i = @ + 1,
                  !.newSegments = @ \o placed,
                  !.remainingLength = IF placed = <<>> THEN @ ELSE @ - Scale,
                  !.iterations = Append(@, [seg |-> seg, from |-> from,
                                            placed |-> placed])]
  /\ UNCHANGED <<phase, playerSnake, aiSnakes, pellets, mouseWorldPosition,
                 tickerCallback, effects, restartTimer, nextPelletId, ticks, camera, boostRun>>

\* The end of the call: the drain and the return.  snake is the snake passed
\* in as it was before the call, arg the same object after the call, ret the
\* snake returned, walk the state of the loop at its exit.
ReturnUpdateSnakeMovement ==
  /\ last.op = "rebuild"
  /\ ~LoopCondition
  /\ \E moved \in {updateSnakeMovement(playerSnake, mouseWorldPosition, last.delta,
                                       last.isBoosting, mapSize)} :
       /\ last' = [op |-> "updateSnakeMovement", snake |-> playerSnake,
                   delta |-> last.delta, isBoosting |-> last.isBoosting,
                   arg |-> moved.arg, ret |-> moved.ret, walk |-> last]
       /\ playerSnake' = moved.ret
  /\ UNCHANGED <<phase, aiSnakes, pellets, mouseWorldPosition,
                 tickerCallback, effects, restartTimer, nextPelletId, ticks, camera, boostRun>>

\* A call of updateAISnake on the AI snake of the state.
CallUpdateAISnake ==
  /\ last.op = "none"
  /\ aiSnakes # <<>>
  /\ \E delta \in MovementDeltas, random \in RandomDraws(aiSnakes[1]) \cup {<<d>> : d \in MovementDirs} :
       \E moved \in {updateAISnake(aiSnakes[1], delta, pellets, mapSize, random)} :
         /\ last' = [op |-> "updateAISnake", snake |-> aiSnakes[1], delta |-> delta,
                     random |-> random, arg |-> moved.arg, ret |-> moved.ret]
         /\ aiSnakes' = <<moved.ret>>
  /\ UNCHANGED <<phase, playerSnake, pellets, mouseWorldPosition,
                 tickerCallback, effects, restartTimer, nextPelletId, ticks, camera, boostRun>>

NextMovement ==
  \/ CallUpdateSnakeMovement
  \/ RebuildIteration
  \/ ReturnUpdateSnakeMovement
  \/ CallUpdateAISnake

SpecMovement == InitMovement /\ [][NextMovement]_vars

\* p is, within the resolution of the fixed point, the point 1.0 from the
\* point from in the direction of the point seg.
IsLinkToward(p, from, seg) ==
  /\ distance2DSq(from, p) <= One * One
  /\ distance2DSq(from, p) >= (One - 2) * (One - 2)
  /\ Abs((p.x - from.x) * (seg.y - from.y) - (p.y - from.y) * (seg.x - from.x))
       <= 2 * (Abs(seg.x - from.x) + Abs(seg.y - from.y))
  /\ (p.x - from.x) * (seg.x - from.x) + (p.y - from.y) * (seg.y - from.y) > 0

\* The rule of one iteration: d > 1.0 places a segment 1.0 from the last
\* placed one toward the old one, 0.1 < d <= 1.0 keeps the old position,
\* d <= 0.1 drops the segment.
IterationRule(it) ==
  IF distance2DSq(it.from, it.seg) > One * One
  THEN Len(it.placed) = 1 /\ IsLinkToward(it.placed[1], it.from, it.seg)
  ELSE IF distance2DSq(it.from, it.seg) > Tenth * Tenth
  THEN it.placed = <<it.seg>>
  ELSE it.placed = <<>>

\* The segments placed by the iterations before iteration k.
PlacedBefore(its, k) == Concat([j \in 1..(k - 1) |-> its[j].placed])

\* The walk its over the segments of snake, from the new head, follows the
\* rule, stops as the claim says and yields the list segments.
WalkRule(its, snake, segments) ==
  /\ \A k \in 1..Len(its) :
       /\ its[k].seg = snake.segments[k]
       /\ its[k].from = Last(<<segments[1]>> \o PlacedBefore(its, k))
       /\ IterationRule(its[k])
       /\ Len(PlacedBefore(its, k)) * Scale < snake.length - Scale
  /\ segments = <<segments[1]>> \o PlacedBefore(its, Len(its) + 1)
  /\ \/ Len(its) = Len(snake.segments)
     \/ Len(PlacedBefore(its, Len(its) + 1)) * Scale >= snake.length - Scale

\* C12: the body rebuild walks the previous tick's segments head to tail and,
\* for each one, measures its distance d to the last newly placed segment:
\* d > 1.0 places a new segment exactly 1.0 from the last placed segment in
\* the direction of the old one; 0.1 < d <= 1.0 keeps the old position;
\* d <= 0.1 drops the segment; the walk stops as soon as length - 1 trailing
\* segments have been placed or the old list is exhausted.
C12_RebuildWalk ==
  last.op = "updateSnakeMovement" =>
    WalkRule(last.walk.iterations, last.snake, last.ret.segments)

\* C12 witness: a walk that dropped a segment, kept one, placed one 1.0 from
\* the last placed one, and stopped before the end of the old list.
C12_Witness ==
  /\ last.op = "updateSnakeMovement"
  /\ Len(last.walk.iterations) < Len(last.snake.segments)
  /\ \E k \in 1..Len(last.walk.iterations) : last.walk.iterations[k].placed = <<>>
  /\ \E k \in 1..Len(last.walk.iterations) :
       last.walk.iterations[k].placed = <<last.walk.iterations[k].seg>>
  /\ \E k \in 1..Len(last.walk.iterations) :
       /\ last.walk.iterations[k].placed # <<>>
       /\ last.walk.iterations[k].placed # <<last.walk.iterations[k].seg>>

\* C13: updateSnakeMovement is a pure transform: after a call, the snake
\* object passed in has the same direction, length, score and segments as
\* before the call.
C13_ArgumentUnchanged ==
  last.op = "updateSnakeMovement" =>
    /\ last.arg.direction = last.snake.direction
    /\ last.arg.length = last.snake.length
    /\ last.arg.score = last.snake.score
    /\ last.arg.segments = last.snake.segments

\* The indices, among the first 50, of the pellets within 30 of the head.
InDetection(head) ==
  {i \in 1..Min(Len(pellets), PelletScanCap) :
     distance2DSq(head, pellets[i].position) < DetectRadius * DetectRadius}

\* The closest of them, the first one on ties.
ClosestIndex(head) ==
  CHOOSE i \in InDetection(head) :
    \A j \in InDetection(head) :
      \/ distance2DSq(head, pellets[i].position) < distance2DSq(head, pellets[j].position)
      \/ /\ distance2DSq(head, pellets[i].position) = distance2DSq(head, pellets[j].position)
         /\ i <= j

\* d is a vector of length 1, within the resolution of the fixed point.
IsUnit(d) ==
  /\ d.x * d.x + d.y * d.y <= DirScale * DirScale
  /\ d.x * d.x + d.y * d.y >= (DirScale - 2) * (DirScale - 2)

\* C15: AI steering considers only the first 50 entries of the pellet list:
\* if at least one of them is at distance < 30 from the AI head, the new
\* direction is the normalized vector from the head to the closest such
\* pellet (first one on ties) and pellets at index >= 50 never influence it;
\* if none is in range, the direction either stays exactly as in the
\* previous tick or becomes a unit vector of a new random angle.
C15_SteersToClosest ==
  last.op = "updateAISnake" =>
    IF InDetection(last.snake.segments[1]) # {}
    THEN IsUnitAlong(last.ret.direction,
                     Pt(pellets[ClosestIndex(last.snake.segments[1])].position.x
                          - last.snake.segments[1].x,
                        pellets[ClosestIndex(last.snake.segments[1])].position.y
                          - last.snake.segments[1].y))
    ELSE last.ret.direction = last.snake.direction \/ IsUnit(last.ret.direction)

\* C15 witness: the snake steered to a pellet among the first 50 while a
\* pellet behind them was closer to its head.
C15_Witness ==
  /\ last.op = "updateAISnake"
  /\ InDetection(last.snake.segments[1]) # {}
  /\ \E j \in (PelletScanCap + 1)..Len(pellets) :
       distance2DSq(last.snake.segments[1], pellets[j].position)
         < distance2DSq(last.snake.segments[1],
                        pellets[ClosestIndex(last.snake.segments[1])].position)
  /\ last.ret.direction = Pt(0, DirScale)

\* ------------------------------------------------------------------------
\* Camera.update on its own (specification SpecCamera)
\* ------------------------------------------------------------------------

\* Calls of Camera.update followed from each initial state.
MaxCameraUpdates == 4

\* Lengths of the snake handed to the camera: the initial length, after 0.4 s
\* of boost from 10.4, after 20 pellets, and a length whose zoom is below
\* minZoom.
CameraLengths == {MinLength, MinLength + (2 * Scale) \div 10, 30 * Scale, 300 * Scale}

\* newPlayerSnake of a frame: heading east with its head at x = 249.5 or 250.
CameraSnakes ==
  {StraightSnake("player", x, 0, INITIAL_SNAKE_LENGTH, length) :
     x \in {W(249, 50), W(250, 0)}, length \in CameraLengths}

\* The zoom of a new camera after 4250 updates that followed a snake of
\* length 10 (target 8.0): 1.0 moved 4250 times by a thousandth of the
\* distance left, which is still 0.10013.  Two updates later the distance is
\* below 0.1.
ApproachScale == 7899870

\* The camera of that moment: the pivot has caught up with a head resting at
\* (249.5, 0) and the initial zoom is not complete.
ApproachCamera ==
  [pivot |-> Pt(W(249, 50), 0), position |-> Pt(Screen.x \div 2, Screen.y \div 2),
   scale |-> ApproachScale, initialZoomComplete |-> FALSE]

\* last in SpecCamera carries close: an update of the present Camera has seen
\* a zoom difference below 0.1.
InitCamera ==
  /\ phase = "playing"
  /\ playerSnake = StraightSnake("player", W(249, 50), 0, INITIAL_SNAKE_LENGTH, MinLength)
  /\ aiSnakes = <<StraightSnake(AIIds[1], LateHeads[1].x, LateHeads[1].y,
                                INITIAL_SNAKE_LENGTH, MinLength)>>
  /\ pellets = <<[id |-> 0, position |-> LateSpots[1]]>>
  /\ mouseWorldPosition = Pt(W(249, 50), 0)
  /\ tickerCallback = TRUE
  /\ effects = <<ResolveInit(NewEffect)>>
  /\ restartTimer = -1
  /\ nextPelletId = 1
  /\ ticks = 0
  /\ boostRun = NoRun
  /\ \/ camera = NewCamera /\ last = [op |-> "none", close |-> FALSE]
     \/ camera = ApproachCamera /\ last = [op |-> "none", close |-> FALSE]
     \/ camera = LateCamera /\ last = [op |-> "none", close |-> TRUE]

\* Step 11 of a frame: camera.update(gameContainer, newPlayerSnake, width,
\* height), newPlayerSnake being the snake the frame has stored.
CallCameraUpdate(snake) ==
  /\ ticks < MaxCameraUpdates
  /\ ticks' = ticks + 1
  /\ \E frame \in {CameraFrame(camera, snake, Screen)} :
       /\ camera' = frame.camera
       /\ playerSnake' = frame.playerSnake
  /\ last' = [op |-> "cameraUpdate", camera |-> camera, snake |-> snake,
              phase |-> phase, aiSnakes |-> aiSnakes, pellets |-> pellets,
              targetZoom |-> TargetZoom(snake.length),
              zoomLerpFactor |-> zoomLerpFactor(camera, TargetZoom(snake.length)),
              wasClose |-> last.close,
              close |-> last.close
                        \/ Abs(TargetZoom(snake.length) - camera.scale) < ZoomEpsilon]
  /\ UNCHANGED <<phase, aiSnakes, pellets, mouseWorldPosition, tickerCallback, effects,
                 restartTimer, nextPelletId, boostRun>>

\* The PixiGame effect runs again: a new container and a new Camera.
CameraCreated ==
  /\ camera # NewCamera
  /\ camera' = NewCamera
  /\ last' = [op |-> "newCamera", close |-> FALSE]
  /\ UNCHANGED <<phase, playerSnake, aiSnakes, pellets, mouseWorldPosition,
                 tickerCallback, effects, restartTimer, nextPelletId, ticks, boostRun>>

NextCamera ==
  \/ \E snake \in CameraSnakes : CallCameraUpdate(snake)
  \/ CameraCreated

SpecCamera == InitCamera /\ [][NextCamera]_vars

IsCameraUpdate == last.op = "cameraUpdate"

\* C17: the zoom smoothing is a one-way latch: an update uses the factor
\* 0.001 as long as no update of the same Camera, itself included, has seen
\* |targetZoom - zoom| < 0.1, and 0.05 from that update on, whatever the
\* difference is later; the zoom moves by that fraction of the difference.
C17_ZoomLatch ==
  IsCameraUpdate =>
    /\ last.zoomLerpFactor = IF last.close THEN 50 ELSE 1
    /\ camera.initialZoomComplete = last.close
    /\ camera.scale = last.camera.scale
         + Trunc((last.targetZoom - last.camera.scale) * last.zoomLerpFactor, 1000)

\* C17 witness: an update of a Camera that had seen a difference below 0.1
\* meets a difference of 0.1 or more and uses 0.05.
C17_Witness ==
  /\ IsCameraUpdate /\ last.wasClose
  /\ Abs(last.targetZoom - last.camera.scale) >= ZoomEpsilon
  /\ last.zoomLerpFactor = 50
  /\ camera.scale # last.camera.scale

\* C17 witness of the switch: the first update with a difference below 0.1
\* on a Camera that used 0.001 so far.
C17_Switch ==
  /\ IsCameraUpdate /\ ~last.wasClose /\ last.close
  /\ ~last.camera.initialZoomComplete /\ last.zoomLerpFactor = 50

\* C18: on every camera update the target zoom is
\* max(minZoom, baseZoom - (length - 10) * zoomScale), lies in [4.0, 8.0], and
\* is not above the target of any shorter length.
C18_TargetZoom ==
  IsCameraUpdate =>
    /\ last.targetZoom =
         Max(4 * ZoomUnit,
             8 * ZoomUnit - Trunc((last.snake.length - 10 * Scale) * 15 * (ZoomUnit \div 1000),
                                  Scale))
    /\ last.targetZoom >= minZoom /\ last.targetZoom <= baseZoom
    /\ \A shorter \in CameraLengths :
         shorter <= last.snake.length => last.targetZoom <= TargetZoom(shorter)

\* C18 witness: an update for a length whose unfloored zoom is below minZoom
\* has the target 4.0, and the camera has moved towards it.
C18_Witness ==
  /\ IsCameraUpdate
  /\ baseZoom - Trunc((last.snake.length - MinLength) * zoomScale, Scale) < minZoom
  /\ last.targetZoom = minZoom
  /\ camera.scale < last.camera.scale

\* C19: Camera.update changes only the camera transform: the player snake,
\* the AI snakes, the pellets and the phase are the same after the call as
\* before it.
C19_OnlyTheCamera ==
  IsCameraUpdate =>
    /\ playerSnake = last.snake
    /\ aiSnakes = last.aiSnakes
    /\ pellets = last.pellets
    /\ phase = last.phase

\* C19 witness: an update has changed the focus point, the zoom and the flag
\* of the camera, beside AI snakes and pellets.
C19_Witness ==
  /\ IsCameraUpdate
  /\ camera.pivot # last.camera.pivot
  /\ camera.scale # last.camera.scale
  /\ camera.initialZoomComplete # last.camera.initialZoomComplete
  /\ aiSnakes # <<>> /\ pellets # <<>>

\* A call of one of the two movement functions has returned.
IsMoveCall == last.op \in {"updateSnakeMovement", "updateAISnake"}

\* isBoosting ? speed * 2 : speed, for the call recorded in last (updateAISnake
\* has no boost: moveDistance = snake.speed * delta).
EffectiveSpeed ==
  IF last.op = "updateSnakeMovement" /\ last.isBoosting THEN 2 * 5 ELSE 5

\* v clamped into [-mapSize / 2, mapSize / 2].
Clamped(v) == Max(-((500 * Scale) \div 2), Min((500 * Scale) \div 2, v))

\* C22: in one call the head moves by direction * effectiveSpeed * dt,
\* effectiveSpeed being 2 * speed when boosting and speed otherwise, and each
\* coordinate is then clamped into [-mapSize / 2, mapSize / 2]; a head at the
\* origin with the target (10, 0), speed 5 and dt = 1/60 gets the direction
\* (1, 0) and moves to (5/60, 0), and to twice that when boosting.
C22_HeadDisplacement ==
  IsMoveCall =>
    /\ last.ret.segments[1] =
         Pt(Clamped(last.snake.segments[1].x
                    + Trunc(last.ret.direction.x * EffectiveSpeed * last.delta, DirScale)),
            Clamped(last.snake.segments[1].y
                    + Trunc(last.ret.direction.y * EffectiveSpeed * last.delta, DirScale)))
    /\ (/\ last.op = "updateSnakeMovement"
        /\ last.snake.segments[1] = Zero
        /\ mouseWorldPosition = Pt(10 * Scale, 0)
        /\ last.delta = 1)
       => /\ last.ret.direction = Pt(DirScale, 0)
          /\ last.ret.segments[1] = Pt(IF last.isBoosting THEN 10 ELSE 5, 0)

\* C22 witness: the boosting call of the example has moved the head from the
\* origin to (10/60, 0).
C22_Witness ==
  /\ last.op = "updateSnakeMovement" /\ last.isBoosting /\ last.delta = 1
  /\ last.snake.segments[1] = Zero /\ mouseWorldPosition = Pt(10 * Scale, 0)
  /\ last.ret.segments[1] = Pt(10, 0)

\* A call near the east wall whose displacement was cut by the clamp.
C22_ClampedCall ==
  /\ last.op = "updateSnakeMovement"
  /\ last.snake.segments[1].x
       + Trunc(last.ret.direction.x * EffectiveSpeed * last.delta, DirScale)
     > (500 * Scale) \div 2
  /\ last.ret.segments[1].x = (500 * Scale) \div 2

\* ------------------------------------------------------------------------
\* normalize2D on its own (specification SpecNormalize)
\* ------------------------------------------------------------------------

\* Coordinates of the vectors normalized: multiples of half a world unit up
\* to 3, and the width of the arena.
NormalizeCoords ==
  {k * W(0, 50) : k \in -6..6} \cup {-mapSize, mapSize}

\* The vector handed to normalize2D is held in mouseWorldPosition (the
\* pointer as seen from a head at the origin).
InitNormalize ==
  /\ phase = "menu"
  /\ playerSnake = Null
  /\ aiSnakes = <<>>
  /\ pellets = <<>>
  /\ mouseWorldPosition \in {Pt(x, y) : x \in NormalizeCoords, y \in NormalizeCoords}
  /\ tickerCallback = FALSE
  /\ effects = <<>>
  /\ restartTimer = -1
  /\ nextPelletId = 0
  /\ ticks = 0
  /\ camera = Null
  /\ boostRun = NoRun
  /\ last = NoOp("none")

\* A call of normalize2D.
CallNormalize2D ==
  /\ last.op = "none"
  /\ last' = [op |-> "normalize2D", point |-> mouseWorldPosition,
              ret |-> normalize2D(mouseWorldPosition)]
  /\ UNCHANGED <<phase, playerSnake, aiSnakes, pellets, mouseWorldPosition,
                 tickerCallback, effects, restartTimer, nextPelletId, ticks, camera, boostRun>>

NextNormalize == CallNormalize2D

SpecNormalize == InitNormalize /\ [][NextNormalize]_vars

\* C25: normalize2D returns the zero vector for the zero vector and, for
\* every other vector, a vector of length 1 (within the tolerance) with the
\* same direction: parallel to the argument and on the same side.
C25_Normalize ==
  last.op = "normalize2D" =>
    /\ last.point = Zero => last.ret = Zero
    /\ last.point # Zero =>
         /\ last.ret # Zero
         /\ ZeroOrUnit(last.ret)
         /\ Abs(last.ret.x * last.point.y - last.ret.y * last.point.x)
              <= Abs(last.point.x) + Abs(last.point.y)
         /\ last.ret.x * last.point.x + last.ret.y * last.point.y > 0

\* C25 witness: normalize2D has returned the zero vector for the zero vector.
C25_Witness ==
  /\ last.op = "normalize2D" /\ last.point = Zero /\ last.ret = Zero

\* A vector along no axis has been normalized.
C25_Diagonal ==
  /\ last.op = "normalize2D"
  /\ last.point.x < 0 /\ last.point.y > 0 /\ last.point.x # -last.point.y
  /\ last.ret.x < 0 /\ last.ret.y > 0

\* ------------------------------------------------------------------------
\* The PixiGame effect step by step (specification SpecLifecycle)
\* ------------------------------------------------------------------------

\* Runs of the effect that are pending at the same time.
MaxEffects == 2

\* effects with run i replaced by e, or without it once nothing is left to
\* run for it.
Settle(i, e) ==
  IF Finished(e)
  THEN SubSeq(effects, 1, i - 1) \o SubSeq(effects, i + 1, Len(effects))
  ELSE [effects EXCEPT ![i] = e]

\* The effect runs (mount, or phase became "playing"): React has run the
\* cleanup of the previous run before.  initializeGame() creates the
\* application and awaits app.init().
EffectRun ==
  /\ phase = "playing"
  /\ \A i \in 1..Len(effects) : ~effects[i].mounted
  /\ Len(effects) < MaxEffects
  /\ effects' = Append(effects, NewEffect)
  /\ last' = NoOp("effect")
  /\ UNCHANGED <<phase, playerSnake, aiSnakes, pellets, mouseWorldPosition,
                 tickerCallback, restartTimer, nextPelletId, ticks, camera, boostRun>>

\* app.init() of run i resolves and initializeGame goes on to its end.
InitResolves(i) ==
  /\ ~effects[i].resolved
  /\ \E e \in {ResolveInit(effects[i])} :
       /\ effects' = Settle(i, e)
       /\ tickerCallback' = (tickerCallback \/ e.ticker)
       /\ camera' = IF e.ticker THEN NewCamera ELSE camera
       /\ last' = [op |-> "initResolved", before |-> effects[i], after |-> e]
  /\ UNCHANGED <<phase, playerSnake, aiSnakes, pellets, mouseWorldPosition,
                 restartTimer, nextPelletId, ticks, boostRun>>

\* The cleanup function of the mounted run i is called.
RunCleanup(i, name) ==
  /\ effects[i].mounted
  /\ \E e \in {CleanupEffect(effects[i])} :
       /\ effects' = Settle(i, e)
       /\ tickerCallback' = IF effects[i].ticker THEN e.ticker ELSE tickerCallback
       /\ camera' = IF effects[i].ticker /\ ~e.ticker THEN Null ELSE camera
       /\ last' = [op |-> name, before |-> effects[i], after |-> e]
  /\ UNCHANGED <<phase, playerSnake, aiSnakes, pellets, mouseWorldPosition,
                 restartTimer, nextPelletId, boostRun>>

\* Cleanup because the phase is no longer "playing".
PhaseCleanup ==
  /\ phase # "playing"
  /\ ticks' = 0
  /\ \E i \in 1..Len(effects) : RunCleanup(i, "cleanup")

\* Cleanup because the component unmounts while the game is played (it may
\* be mounted again, which runs the effect again); the count of ticks goes on.
Unmount ==
  /\ phase = "playing"
  /\ UNCHANGED ticks
  /\ \E i \in 1..Len(effects) : RunCleanup(i, "unmount")

NextLifecycle ==
  \/ StartClick
  \/ RestartClick
  \/ TimerFire
  \/ UpdateMousePosition
  \/ TickSkip
  \/ TickPlayer
  \/ EffectRun
  \/ \E i \in 1..Len(effects) : InitResolves(i)
  \/ PhaseCleanup
  \/ Unmount

SpecLifecycle == Init /\ [][NextLifecycle]_vars

\* A run of the effect has just been cleaned up, by either cause.
IsCleanup == last.op \in {"cleanup", "unmount"}

\* C27: if the cleanup of a run of the effect is called before app.init()
\* resolves, no input listener is attached and no ticker callback is
\* registered for that run, then or later, and the application is destroyed
\* exactly once, when init resolves; if it is called after the
\* initialization, the listeners and the ticker callback are removed and the
\* application is destroyed exactly once, and no callback is registered
\* afterwards, so no tick runs.
C27_EffectLifecycle ==
  /\ \A i \in 1..Len(effects) :
       /\ effects[i].destroyed = 0
       /\ ~effects[i].mounted => ~effects[i].listeners /\ ~effects[i].ticker
  /\ tickerCallback = (\E i \in 1..Len(effects) : effects[i].ticker)
  /\ (IsCleanup /\ ~last.before.resolved) =>
       ~last.after.listeners /\ ~last.after.ticker /\ last.after.destroyed = 0
  /\ (last.op = "initResolved" /\ ~last.before.mounted) =>
       ~last.after.listeners /\ ~last.after.ticker /\ last.after.destroyed = 1
  /\ (IsCleanup /\ last.before.resolved) =>
       /\ last.before.listeners /\ last.before.ticker
       /\ ~last.after.listeners /\ ~last.after.ticker /\ last.after.destroyed = 1
       /\ ~tickerCallback

\* C27 witness: app.init() has resolved for a run that was cleaned up before,
\* while a later run of the effect is in progress: the application of the
\* former has been destroyed and only that.
C27_Witness ==
  /\ last.op = "initResolved" /\ ~last.before.mounted
  /\ last.after.destroyed = 1
  /\ \E i \in 1..Len(effects) : effects[i].mounted

\* A run has been cleaned up after its initialization by a change of phase.
C27_CleanupAfterInit ==
  /\ last.op = "cleanup" /\ last.before.resolved /\ last.after.destroyed = 1
  /\ phase = "gameover"

\* The segments of a list are a chain: each is more than 0.1 and at most 1.0
\* from the one before it.
IsChain(segments) ==
  \A i \in 1..(Len(segments) - 1) :
    /\ distance2DSq(segments[i], segments[i + 1]) > Tenth * Tenth
    /\ distance2DSq(segments[i], segments[i + 1]) <= One * One

\* C33: after every tick each pair of consecutive segments of every snake,
\* head to tail, is more than 0.1 and at most 1.0 apart: so it is for every
\* snake of the store, for the snake a tick computes for the player, and for
\* the snake every call of updateSnakeMovement and updateAISnake returns.
C33_BodyIsChain ==
  /\ \A s \in Snakes : IsChain(s.segments)
  /\ IsTick => IsChain(last.updatedPlayer.segments)
  /\ IsMoveCall => IsChain(last.ret.segments)

\* C33 witness: a call of updateSnakeMovement has moved the head, dropped an
\* old segment within 0.1 of the last placed one, pulled a segment in to one
\* spacing, and kept a segment less than one spacing from the one before.
C33_Witness ==
  /\ last.op = "updateSnakeMovement"
  /\ last.ret.segments[1] # last.snake.segments[1]
  /\ \E k \in 1..Len(last.walk.iterations) : last.walk.iterations[k].placed = <<>>
  /\ \E k \in 1..Len(last.walk.iterations) :
       /\ last.walk.iterations[k].placed # <<>>
       /\ last.walk.iterations[k].placed # <<last.walk.iterations[k].seg>>
  /\ \E i \in 1..(Len(last.ret.segments) - 1) :
       distance2DSq(last.ret.segments[i], last.ret.segments[i + 1]) < (One - 2) * (One - 2)

\* C34: every snake has at least one segment, its head, and one tick raises
\* the number of segments of a snake by at most 1, however many pellets the
\* snake has collected: so it is for every snake of the store across a tick
\* and for the snake every call of updateSnakeMovement and updateAISnake
\* returns.
C34_HeadAndGrowthByOne ==
  /\ \A s \in Snakes : Len(s.segments) >= 1
  /\ IsTick =>
       /\ Len(last.updatedPlayer.segments) >= 1
       /\ Len(last.updatedPlayer.segments) <= Len(last.playerSnake.segments) + 1
       /\ Len(playerSnake.segments) <= Len(last.playerSnake.segments) + 1
       /\ \A a \in 1..Len(aiSnakes) :
            Len(aiSnakes[a].segments) <= Len(last.aiSnakes[a].segments) + 1
  /\ IsMoveCall =>
       /\ Len(last.ret.segments) >= 1
       /\ Len(last.ret.segments) <= Len(last.snake.segments) + 1

\* C34 witness: updateSnakeMovement was called on a snake whose length is two
\* units ahead of its number of segments, as after two pellets in one tick,
\* and returned it with one segment more.
C34_Witness ==
  /\ last.op = "updateSnakeMovement"
  /\ last.snake.length >= (Len(last.snake.segments) + 2) * Scale
  /\ Len(last.ret.segments) = Len(last.snake.segments) + 1

\* score - length of a snake, in length units.
Gap(snake) == snake.score * Scale - snake.length

\* The length boost drains in the tick recorded in last: 2 per second of the
\* frame while the length is above 10, and never below 10.
TickDrain ==
  IF last.isBoosting /\ last.playerSnake.length > MinLength
  THEN Min(2 * last.delta, last.playerSnake.length - MinLength)
  ELSE 0

\* C35: in every state score >= length for every snake and score = length
\* for every AI snake; for the player score - length is the length boost has
\* drained during the run: it is 0 in the world startGame creates and every
\* tick raises it by the drain of that tick (a tick that ends the game stores
\* the drain or leaves the stored length as it was).
C35_ScoreAtLeastLength ==
  /\ \A s \in Snakes : Gap(s) >= 0
  /\ \A a \in 1..Len(aiSnakes) : Gap(aiSnakes[a]) = 0
  /\ last.op \in {"start", "timer"} => Gap(playerSnake) = 0
  /\ IsTick =>
       /\ Gap(last.updatedPlayer) = Gap(last.playerSnake) + TickDrain
       /\ IF last.playerHitSnake
          THEN Gap(playerSnake) - Gap(last.playerSnake) \in {0, TickDrain}
          ELSE Gap(playerSnake) = Gap(last.playerSnake) + TickDrain

\* C35 witness: a boosting tick has drained the player's length while the
\* player and an AI snake each collected a pellet: the player's score is
\* ahead of its length and the AI snake's score and length rose together.
C35_Witness ==
  /\ PlayingTick /\ ~last.playerHitSnake
  /\ TickDrain > 0
  /\ last.collectedPellets # <<>>
  /\ Gap(playerSnake) > Gap(last.playerSnake)
  /\ \E a \in 1..Len(aiSnakes) : aiSnakes[a].score > last.aiSnakes[a].score

====
